---- MODULE Spec2Model ----
(***************************************************************************)
(* NeptuneAI retrieval layer: ARGOVectorStore (backend/vector_store.py).   *)
(*                                                                         *)
(* The store keeps three in-memory containers: the FAISS IndexFlatIP       *)
(* `index`, the record list `metadata` and the dict `id_to_metadata`, and  *)
(* two persisted files, faiss_index.bin and metadata.json.                 *)
(*                                                                         *)
(* Python lists are modelled by sequences; a Python slot i is position     *)
(* i + 1 of the sequence.  None is the empty tuple and a returned value x  *)
(* is the one-element tuple <<x>>.                                         *)
(***************************************************************************)
EXTENDS Integers, Sequences, FiniteSets, TLC

VARIABLES index, metadata, id_to_metadata, disk, last, committed, steps, store, conc, pipe

vars == <<index, metadata, id_to_metadata, disk, last, committed, steps, store, conc, pipe>>

(* ------------------------------ bounds --------------------------------- *)

\* number of distinct content strings the callers submit
NumContents == 2

\* number of store operations in one run
MaxSteps == 4

\* largest k passed to search: one more than a full store can fill is not
\* needed, a store of fewer documents already meets k > n
MaxK == NumContents

Contents == 1..NumContents

\* query texts: the encoder embeds them in the same space as contents
Queries == 1..2

\* the (metadata, doc_type) pairs callers pass to add_document
DocArgs ==
    {<<[region |-> "arctic"], "profile">>, <<[region |-> "indian"], "summary">>}

None == <<>>

Some(x) == <<x>>

\* the only element of a one-element set
The(S) == CHOOSE x \in S : TRUE

(* --------------------------- Python helpers ---------------------------- *)

\* seq[i] of Python does not raise IndexError
PyInRange(seq, i) == (i >= 0 /\ i < Len(seq)) \/ (i < 0 /\ 0 - i <= Len(seq))

\* seq[i] of Python, negative i counting from the end
PyIndex(seq, i) == IF i >= 0 THEN seq[i + 1] ELSE seq[Len(seq) + i + 1]

\* del seq[i] for an in-range i >= 0
PyDel(seq, i) == [j \in 1..(Len(seq) - 1) |-> IF j <= i THEN seq[j] ELSE seq[j + 1]]

\* the empty dict
EmptyMap == [d \in {} |-> 0]

\* {doc['id']: i for i, doc in enumerate(docs)}: a later slot overwrites an earlier one
EnumerateIds(docs) ==
    [d \in {docs[j].id : j \in 1..Len(docs)} |->
        (CHOOSE j \in 1..Len(docs) :
            /\ docs[j].id = d
            /\ \A l \in 1..Len(docs) : docs[l].id = d => l <= j) - 1]

(* ------------------------------ encoder -------------------------------- *)

\* hashlib.md5(content.encode()).hexdigest(): a digest, distinct per content
GenerateId(content) == <<"md5", content>>

\* encoder.encode([text])[0] divided by its norm: a fixed vector per text
Embedding(text) == <<text, (text * text) % 7>>

\* inner product of two vectors
InnerProduct(u, v) == u[1] * v[1] + u[2] * v[2]

(* --------------------------- faiss IndexFlatIP ------------------------- *)

\* faiss.IndexFlatIP(dimension): no vectors
EmptyIndex == <<>>

\* index.ntotal
NTotal(ix) == Len(ix)

\* index.add(np.array([v])): the vector takes the next sequential slot
IndexAdd(ix, v) == Append(ix, v)

\* index.remove_ids(np.array([idx])) on a flat index: the vector whose
\* sequential id is idx is dropped and the later vectors shift down by one;
\* an id that is not present removes nothing
IndexRemoveIds(ix, idx) ==
    IF idx >= 0 /\ idx < Len(ix) THEN PyDel(ix, idx) ELSE ix

\* label and score faiss puts in the result positions it cannot fill
PadIdx == -1

PadScore == -1

\* slot j comes before slot i in the result for query vector qv: higher inner
\* product, the lower slot on equal scores
Beats(ix, qv, j, i) ==
    \/ InnerProduct(qv, ix[j + 1]) > InnerProduct(qv, ix[i + 1])
    \/ InnerProduct(qv, ix[j + 1]) = InnerProduct(qv, ix[i + 1]) /\ j < i

\* the slot that r slots come before
SlotAtRank(ix, qv, r) ==
    CHOOSE i \in 0..(Len(ix) - 1) :
        Cardinality({j \in 0..(Len(ix) - 1) : Beats(ix, qv, j, i)}) = r

\* index.search(np.array([qv]), k) for k > 0: exactly k (score, idx) pairs,
\* best first, padded with (PadScore, PadIdx) when the index holds fewer than k
IndexSearch(ix, qv, k) ==
    [p \in 1..k |->
        IF p <= Len(ix)
        THEN [score |-> InnerProduct(qv, ix[SlotAtRank(ix, qv, p - 1) + 1]),
              idx |-> SlotAtRank(ix, qv, p - 1)]
        ELSE [score |-> PadScore, idx |-> PadIdx]]

(* ------------------------------ records -------------------------------- *)

\* the dict add_document stores for a document (created_at and updated_at,
\* two wall-clock strings, are left out)
DocMeta(content, md, doc_type) ==
    [id |-> GenerateId(content), content |-> content, metadata |-> md, doc_type |-> doc_type]

\* the outcome of a handler: the three containers after it and what the caller gets
Outcome(ix, docs, ids, ret, raised) ==
    [index |-> ix, metadata |-> docs, id_to_metadata |-> ids, ret |-> ret, raised |-> raised]

(* ------------------------------ handlers ------------------------------- *)

\* add_document(content, metadata, doc_type).  In the update branch the record is
\* replaced first, remove_ids then drops the vector of slot idx (the later vectors
\* shift down), and add_with_ids, which IndexFlatIP does not implement, raises:
\* the except clause returns None with the record replaced and the vector gone.
add_document_on(st, content, md, doc_type) ==
    LET doc_id == GenerateId(content)
    IN IF doc_id \in DOMAIN st.id_to_metadata
       THEN LET idx == st.id_to_metadata[doc_id]
            IN IF ~PyInRange(st.metadata, idx)
               THEN Outcome(st.index, st.metadata, st.id_to_metadata, None, FALSE)
               ELSE Outcome(IndexRemoveIds(st.index, idx),
                            [st.metadata EXCEPT ![idx + 1] = DocMeta(content, md, doc_type)],
                            st.id_to_metadata, None, FALSE)
       ELSE LET docs == Append(st.metadata, DocMeta(content, md, doc_type))
            IN Outcome(IndexAdd(st.index, Embedding(content)),
                       docs,
                       [d \in DOMAIN st.id_to_metadata \cup {doc_id} |->
                           IF d = doc_id THEN Len(docs) - 1 ELSE st.id_to_metadata[d]],
                       Some(doc_id), FALSE)

\* add_document on the containers of the store
add_document(content, md, doc_type) ==
    add_document_on([index |-> index, metadata |-> metadata,
                     id_to_metadata |-> id_to_metadata], content, md, doc_type)

\* add_profile_data(df): one add_document(content, metadata, "profile") per row, in
\* row order; the ids of the rows whose add_document returned an id are collected
\* in ret
RECURSIVE add_profile_data_on(_, _)
add_profile_data_on(st, rows) ==
    IF rows = <<>>
    THEN Outcome(st.index, st.metadata, st.id_to_metadata, <<>>, FALSE)
    ELSE LET o == add_document_on(st, Head(rows)[1], Head(rows)[2], "profile")
             rest == add_profile_data_on(o, Tail(rows))
         IN [rest EXCEPT !.ret = o.ret \o rest.ret]

\* _matches_filters(doc, doc_types, filters): doc_types is a set of types (empty
\* for None), filters maps a key to [is_list, val] (the empty tuple for None)
matches_filters(doc, doc_types, filters) ==
    /\ (doc_types # {} => doc.doc_type \in doc_types)
    /\ \A key \in DOMAIN filters :
          /\ key \in DOMAIN doc.metadata
          /\ IF filters[key].is_list
             THEN doc.metadata[key] \in filters[key].val
             ELSE doc.metadata[key] = filters[key].val

\* a candidate of the loop of search is looked up: idx < len(self.metadata)
Looked(p) == p.idx < Len(metadata)

\* the copy of the record of a candidate, with its score
ScoredDoc(p) ==
    LET doc == PyIndex(metadata, p.idx)
    IN [id |-> doc.id, content |-> doc.content, metadata |-> doc.metadata,
        doc_type |-> doc.doc_type, similarity_score |-> p.score]

RECURSIVE Collect(_, _, _)
Collect(pairs, doc_types, filters) ==
    IF pairs = <<>> THEN <<>>
    ELSE LET p == Head(pairs)
             rest == Collect(Tail(pairs), doc_types, filters)
         IN IF Looked(p) /\ matches_filters(ScoredDoc(p), doc_types, filters)
            THEN <<ScoredDoc(p)>> \o rest
            ELSE rest

\* the body of the try block of search raises: faiss asserts k > 0, and
\* self.metadata[idx] raises IndexError for a looked-up slot out of range
SearchRaises(query, k) ==
    \/ k <= 0
    \/ \E i \in 1..k :
          LET p == IndexSearch(index, Embedding(query), k)[i]
          IN Looked(p) /\ ~PyInRange(metadata, p.idx)

\* search without its try block: an exception of the body reaches the caller
search_unguarded(query, k, doc_types, filters) ==
    IF SearchRaises(query, k)
    THEN Outcome(index, metadata, id_to_metadata, <<>>, TRUE)
    ELSE Outcome(index, metadata, id_to_metadata,
                 Collect(IndexSearch(index, Embedding(query), k), doc_types, filters),
                 FALSE)

\* search that puts the score on the stored record instead of a copy of it
search_nocopy(query, k, doc_types, filters) ==
    IF SearchRaises(query, k)
    THEN Outcome(index, metadata, id_to_metadata, <<>>, FALSE)
    ELSE The({Outcome(index,
                      [j \in DOMAIN metadata |->
                          IF \E i \in 1..k : Looked(pairs[i]) /\ pairs[i].idx \in {j - 1, j - 1 - Len(metadata)}
                          THEN ScoredDoc(pairs[CHOOSE i \in 1..k :
                                   Looked(pairs[i]) /\ pairs[i].idx \in {j - 1, j - 1 - Len(metadata)}])
                          ELSE metadata[j]],
                      id_to_metadata, Collect(pairs, doc_types, filters), FALSE) :
                 pairs \in {IndexSearch(index, Embedding(query), k)}})

\* search(query, k, doc_types, filters): any exception is logged and [] returned
search(query, k, doc_types, filters) ==
    IF SearchRaises(query, k)
    THEN Outcome(index, metadata, id_to_metadata, <<>>, FALSE)
    ELSE Outcome(index, metadata, id_to_metadata,
                 Collect(IndexSearch(index, Embedding(query), k), doc_types, filters),
                 FALSE)

\* get_document without the membership test: an unknown id raises KeyError
get_document_unchecked(doc_id) ==
    IF doc_id \in DOMAIN id_to_metadata /\ PyInRange(metadata, id_to_metadata[doc_id])
    THEN Outcome(index, metadata, id_to_metadata,
                 Some(PyIndex(metadata, id_to_metadata[doc_id])), FALSE)
    ELSE Outcome(index, metadata, id_to_metadata, None, TRUE)

\* get_document(doc_id)
get_document(doc_id) ==
    IF doc_id \in DOMAIN id_to_metadata
    THEN IF PyInRange(metadata, id_to_metadata[doc_id])
         THEN Outcome(index, metadata, id_to_metadata,
                      Some(PyIndex(metadata, id_to_metadata[doc_id])), FALSE)
         ELSE Outcome(index, metadata, id_to_metadata, None, TRUE)
    ELSE Outcome(index, metadata, id_to_metadata, None, FALSE)

\* delete_document without the rebuild of the mapping: only the key is dropped
delete_document_norebuild(doc_id) ==
    IF doc_id \notin DOMAIN id_to_metadata
    THEN Outcome(index, metadata, id_to_metadata, Some(FALSE), FALSE)
    ELSE LET idx == id_to_metadata[doc_id]
         IN IF ~(idx >= 0 /\ idx < Len(metadata))
            THEN Outcome(IndexRemoveIds(index, idx), metadata, id_to_metadata,
                         Some(FALSE), FALSE)
            ELSE Outcome(IndexRemoveIds(index, idx),
                         PyDel(metadata, idx),
                         [d \in DOMAIN id_to_metadata \ {doc_id} |-> id_to_metadata[d]],
                         Some(TRUE), FALSE)

\* delete_document(doc_id)
delete_document(doc_id) ==
    IF doc_id \notin DOMAIN id_to_metadata
    THEN Outcome(index, metadata, id_to_metadata, Some(FALSE), FALSE)
    ELSE LET idx == id_to_metadata[doc_id]
         IN IF ~(idx >= 0 /\ idx < Len(metadata))
            THEN Outcome(IndexRemoveIds(index, idx), metadata, id_to_metadata,
                         Some(FALSE), FALSE)
            ELSE Outcome(IndexRemoveIds(index, idx),
                         PyDel(metadata, idx),
                         EnumerateIds(PyDel(metadata, idx)),
                         Some(TRUE), FALSE)

\* clear() that leaves the id mapping as it is
clear_keeps_ids == Outcome(EmptyIndex, <<>>, id_to_metadata, None, FALSE)

\* clear()
clear == Outcome(EmptyIndex, <<>>, EmptyMap, None, FALSE)

\* get_stats(): total_documents and index_size
get_stats == [total_documents |-> Len(metadata), index_size |-> NTotal(index)]

(* ----------------------------- persistence ----------------------------- *)

Absent == [state |-> "absent", data |-> <<>>]

Corrupt == [state |-> "corrupt", data |-> <<>>]

Valid(data) == [state |-> "valid", data |-> data]

\* json.dump(self.metadata, f): the text of a JSON array, one object per
\* record, written as its key and value pairs in insertion order, whatever
\* keys the record has
JsonDump(docs) ==
    [j \in 1..Len(docs) |->
        <<"id", docs[j].id, "content", docs[j].content,
          "metadata", docs[j].metadata, "doc_type", docs[j].doc_type>>
        \o (IF "similarity_score" \in DOMAIN docs[j]
            THEN <<"similarity_score", docs[j].similarity_score>> ELSE <<>>)]

\* json.load(f) of such a text: the list of dicts
JsonLoad(text) ==
    [j \in 1..Len(text) |->
        IF Len(text[j]) > 8
        THEN [id |-> text[j][2], content |-> text[j][4],
              metadata |-> text[j][6], doc_type |-> text[j][8],
              similarity_score |-> text[j][10]]
        ELSE [id |-> text[j][2], content |-> text[j][4],
              metadata |-> text[j][6], doc_type |-> text[j][8]]]

\* what _save_index can meet: both files written, or an error when opening or
\* while writing one of the two files
SaveOutcomes ==
    {"ok", "index_open_failed", "index_write_failed", "meta_open_failed", "meta_write_failed"}

\* _save_index(): faiss.write_index, then json.dump; an error anywhere is logged
\* and skips the rest.  An error while writing leaves a truncated file behind.
save_index_on(ix, docs, outcome) ==
    [index_file |->
        IF outcome = "index_open_failed" THEN disk.index_file
        ELSE IF outcome = "index_write_failed" THEN Corrupt
        ELSE Valid(ix),
     metadata_file |->
        IF outcome = "ok" THEN Valid(JsonDump(docs))
        ELSE IF outcome = "meta_write_failed" THEN Corrupt
        ELSE disk.metadata_file]

\* _save_index() on the containers of the store
save_index(outcome) == save_index_on(index, metadata, outcome)

\* _load_index without the loop that rebuilds the id mapping
load_index_nomap ==
    IF disk.index_file.state = "valid" /\ disk.metadata_file.state = "valid"
    THEN Outcome(disk.index_file.data, JsonLoad(disk.metadata_file.data), EmptyMap,
                 None, FALSE)
    ELSE Outcome(EmptyIndex, <<>>, EmptyMap, None, FALSE)

\* _load_index whose except clause does not reset the containers: what was
\* read before the failure stays
load_index_partial ==
    IF disk.index_file.state # "absent" /\ disk.metadata_file.state # "absent"
    THEN IF disk.index_file.state = "corrupt"
         THEN Outcome(EmptyIndex, <<>>, EmptyMap, None, FALSE)
         ELSE IF disk.metadata_file.state = "corrupt"
         THEN Outcome(disk.index_file.data, <<>>, EmptyMap, None, FALSE)
         ELSE Outcome(disk.index_file.data,
                      JsonLoad(disk.metadata_file.data),
                      EnumerateIds(JsonLoad(disk.metadata_file.data)),
                      None, FALSE)
    ELSE Outcome(EmptyIndex, <<>>, EmptyMap, None, FALSE)

\* _load_index() on the empty containers the constructor has just made
load_index ==
    IF disk.index_file.state # "absent" /\ disk.metadata_file.state # "absent"
    THEN IF disk.index_file.state = "corrupt" \/ disk.metadata_file.state = "corrupt"
         THEN Outcome(EmptyIndex, <<>>, EmptyMap, None, FALSE)
         ELSE Outcome(disk.index_file.data,
                      JsonLoad(disk.metadata_file.data),
                      EnumerateIds(JsonLoad(disk.metadata_file.data)),
                      None, FALSE)
    ELSE Outcome(EmptyIndex, <<>>, EmptyMap, None, FALSE)

(* ------------------------------- inputs -------------------------------- *)

\* the (doc_types, filters) pairs callers pass to search: no filter, a
\* doc_types list, a scalar metadata filter and a list metadata filter
FilterArgs ==
    {<<{}, <<>>>>,
     <<{"summary"}, <<>>>>,
     <<{}, [region |-> [is_list |-> FALSE, val |-> "arctic"]]>>,
     <<{}, [region |-> [is_list |-> TRUE, val |-> {"arctic", "indian"}]]>>}

(* ----------------------- the query pipeline --------------------------- *)

\* the user inputs, as sequences of words
Texts ==
    << <<"Hello", "I", "am", "Sam">>,
       <<"Show", "me", "the", "Arabian", "Sea">>,
       <<"average", "salinity">>,
       <<"what", "is", "salinity">>,
       <<"thanks">>,
       <<"plot", "salinity">> >>

UserInputs == {Texts[i] : i \in 1..Len(Texts)}

\* the number under which the encoder sees a user input
TextNo(text) == CHOOSE i \in 1..Len(Texts) : Texts[i] = text

\* str.lower() on a word
Lower(word) ==
    CASE word = "Hello" -> "hello"
      [] word = "I" -> "i"
      [] word = "Sam" -> "sam"
      [] word = "Show" -> "show"
      [] word = "Arabian" -> "arabian"
      [] word = "Sea" -> "sea"
      [] OTHER -> word

\* str.title() on a lower-case word
Title(word) ==
    CASE word = "arabian" -> "Arabian"
      [] word = "sea" -> "Sea"
      [] word = "indian" -> "Indian"
      [] word = "ocean" -> "Ocean"
      [] word = "sam" -> "Sam"
      [] word = "temperature" -> "Temperature"
      [] word = "salinity" -> "Salinity"
      [] word = "pressure" -> "Pressure"
      [] OTHER -> word

\* user_input.lower()
LowerText(text) == [i \in 1..Len(text) |-> Lower(text[i])]

\* the one-word keywords that occur inside a lower-case word (`in` on strings is
\* a substring test)
Inside(word) ==
    CASE word = "thanks" -> {"thank", "thanks"}
      [] OTHER -> {word}

\* `keyword in user_lower`, the keyword given as its words
Has(keyword, lowered) ==
    IF Len(keyword) = 1
    THEN \E i \in 1..Len(lowered) : keyword[1] \in Inside(lowered[i])
    ELSE \E i \in 1..Len(lowered) :
            /\ i + Len(keyword) - 1 <= Len(lowered)
            /\ SubSeq(lowered, i, i + Len(keyword) - 1) = keyword

HasAny(keywords, lowered) == \E j \in 1..Len(keywords) : Has(keywords[j], lowered)

db_keywords ==
    << <<"show">>, <<"find">>, <<"get">>, <<"list">>, <<"count">>, <<"average">>,
       <<"mean">>, <<"max">>, <<"min">>, <<"data">>, <<"records">> >>

viz_keywords ==
    << <<"plot">>, <<"chart">>, <<"graph">>, <<"map">>, <<"visualize">>,
       <<"show", "me">>, <<"display">>, <<"dashboard">>, <<"pie">>, <<"distribution">> >>

regions ==
    << <<"indian", "ocean">>, <<"pacific", "ocean">>, <<"atlantic", "ocean">>,
       <<"arctic", "ocean">>, <<"southern", "ocean">>, <<"bay", "of", "bengal">>,
       <<"arabian", "sea">> >>

greetings ==
    << <<"hello">>, <<"hi">>, <<"hey">>, <<"good", "morning">>, <<"good", "afternoon">>,
       <<"good", "evening">>, <<"greetings">> >>

thanks == << <<"thank">>, <<"thanks">>, <<"appreciate">>, <<"grateful">> >>

name_patterns ==
    << <<"i", "am">>, <<"i'm">>, <<"my", "name", "is">>, <<"call", "me">>, <<"this", "is">> >>

\* the first region of the list that occurs in the text, title-cased; None if none
FirstRegion(rs, lowered) ==
    LET found == {j \in 1..Len(rs) : Has(rs[j], lowered)}
    IN IF found = {} THEN None
       ELSE Some([i \in 1..Len(rs[CHOOSE j \in found : \A l \in found : j <= l]) |->
                    Title(rs[CHOOSE j \in found : \A l \in found : j <= l][i])])

\* _analyze_query_intent as it would be if the region of the previous query
\* stuck when the text names none
analyze_query_intent_sticky(user_input) ==
    The({[needs_database |-> HasAny(db_keywords, user_lower)
                               \/ HasAny(viz_keywords, user_lower),
          needs_visualization |-> HasAny(viz_keywords, user_lower),
          needs_export |-> FALSE,
          query_type |-> "general",
          region |-> IF here # None \/ pipe.conversation_history = <<>> THEN here
                     ELSE FirstRegion(regions,
                             LowerText(pipe.conversation_history[
                                           Len(pipe.conversation_history)])),
          variables |-> <<>>,
          time_range |-> None] :
            user_lower \in {LowerText(user_input)},
            here \in {FirstRegion(regions, LowerText(user_input))}})

\* _analyze_query_intent without the line that makes a visualization ask for
\* the database
analyze_query_intent_viz_only(user_input) ==
    The({[needs_database |-> HasAny(db_keywords, user_lower),
          needs_visualization |-> HasAny(viz_keywords, user_lower),
          needs_export |-> FALSE,
          query_type |-> "general",
          region |-> FirstRegion(regions, user_lower),
          variables |-> <<>>,
          time_range |-> None] :
            user_lower \in {LowerText(user_input)}})

\* _analyze_query_intent(user_input)
analyze_query_intent(user_input) ==
    The({[needs_database |-> HasAny(db_keywords, user_lower)
                               \/ HasAny(viz_keywords, user_lower),
          needs_visualization |-> HasAny(viz_keywords, user_lower),
          needs_export |-> FALSE,
          query_type |-> "general",
          region |-> FirstRegion(regions, user_lower),
          variables |-> <<>>,
          time_range |-> None] :
            user_lower \in {LowerText(user_input)}})

\* what the Groq call of one query can do: return text, return an empty string,
\* raise, or not be possible at all (no groq package, no API key, no client)
LlmOutcomes == {"ok", "empty", "raises", "unavailable"}

LlmFails(llm) == llm \in {"raises", "unavailable"}

\* what query_by_region can do
DbOutcomes == {"rows", "no_rows", "raises"}

\* a response text: where it comes from, which variant, whether it is ""
Txt(kind, detail, empty) == [kind |-> kind, detail |-> detail, empty |-> empty]

\* the words of the texts that are not longer than two characters
ShortWords == {"i", "am", "is", "me"}

\* the word after a word of a name pattern, when it is alphabetic and longer than
\* two characters, title-cased; the texts have one such word at most
NameIn(user_input) ==
    LET user_lower == LowerText(user_input)
        hits == {i \in 1..Len(user_input) - 1 :
                    /\ \E j \in 1..Len(name_patterns) :
                          /\ Has(name_patterns[j], user_lower)
                          /\ \E l \in 1..Len(name_patterns[j]) :
                                name_patterns[j][l] = user_lower[i]
                    /\ user_lower[i + 1] \notin ShortWords}
    IN IF hits = {} THEN None
       ELSE Some(Title(user_lower[(CHOOSE i \in hits : \A l \in hits : i <= l) + 1]))

\* _query_database: the rows, or an empty DataFrame when there are none or the
\* query raised
query_database(db) == IF db = "rows" THEN "rows" ELSE "empty"

\* the template text of _generate_simple_response (STEP 4)
TemplateText(intent, db_data) ==
    Txt("template",
        IF db_data = "rows" THEN "found"
        ELSE IF intent.needs_database THEN "nothing_found"
        ELSE "default",
        FALSE)

\* _generate_simple_response that lets the exception of the Groq call out
generate_simple_response_propagates(user_input, intent, db_data, llm, name) ==
    LET user_lower == LowerText(user_input)
    IN IF HasAny(greetings, user_lower)
       THEN [text |-> Txt("greeting", "", FALSE), llm_calls |-> 0, raised |-> FALSE,
             name |-> IF NameIn(user_input) # None THEN NameIn(user_input) ELSE name]
       ELSE IF HasAny(thanks, user_lower)
       THEN [text |-> Txt("thanks", "", FALSE), llm_calls |-> 0, raised |-> FALSE,
             name |-> name]
       ELSE IF llm = "unavailable"
       THEN [text |-> TemplateText(intent, db_data), llm_calls |-> 0, raised |-> FALSE,
             name |-> name]
       ELSE IF llm = "raises"
       THEN [text |-> Txt("none", "", TRUE), llm_calls |-> 1, raised |-> TRUE,
             name |-> name]
       ELSE [text |-> Txt("llm", "",
                          llm = "empty"
                            /\ ~(intent.needs_visualization /\ db_data = "rows")),
             llm_calls |-> 1, raised |-> FALSE, name |-> name]

\* _generate_simple_response: greeting, thanks, one Groq call, and the template
\* when Groq is not available or the call raised
generate_simple_response(user_input, intent, db_data, llm, name) ==
    LET user_lower == LowerText(user_input)
    IN IF HasAny(greetings, user_lower)
       THEN [text |-> Txt("greeting", "", FALSE), llm_calls |-> 0, raised |-> FALSE,
             name |-> IF NameIn(user_input) # None THEN NameIn(user_input) ELSE name]
       ELSE IF HasAny(thanks, user_lower)
       THEN [text |-> Txt("thanks", "", FALSE), llm_calls |-> 0, raised |-> FALSE,
             name |-> name]
       ELSE IF llm = "unavailable"
       THEN [text |-> TemplateText(intent, db_data), llm_calls |-> 0, raised |-> FALSE,
             name |-> name]
       ELSE IF llm = "raises"
       THEN [text |-> TemplateText(intent, db_data), llm_calls |-> 1, raised |-> FALSE,
             name |-> name]
       ELSE [text |-> Txt("llm", "",
                          llm = "empty"
                            /\ ~(intent.needs_visualization /\ db_data = "rows")),
             llm_calls |-> 1, raised |-> FALSE, name |-> name]

\* _generate_mcp_response: the text of _generate_simple_response, or a fixed
\* sentence when that raised
generate_mcp_response(user_input, intent, db_data, llm, name) ==
    LET r == generate_simple_response(user_input, intent, db_data, llm, name)
    IN IF r.raised
       THEN [r EXCEPT !.text = Txt("mcp_error", "", FALSE), !.raised = FALSE]
       ELSE r

\* k of the vector search of process_query
SearchK == 10

\* an event of the trace of a query
Ev(name, k) == [ev |-> name, k |-> k]

\* the result dict of process_query and what the call did
QueryResult(user_input, include_visualization, intent, vector_results, db_data, response) ==
    [result |-> [text_response |-> response.text,
                 data |-> IF db_data = "rows" THEN Some("rows") ELSE None,
                 visualization |-> include_visualization /\ intent.needs_visualization
                                      /\ db_data = "rows",
                 intent |-> intent,
                 vector_context |-> SubSeq(vector_results, 1,
                                           IF Len(vector_results) < 5
                                           THEN Len(vector_results) ELSE 5),
                 error |-> FALSE],
     trace |-> <<Ev("intent", 0), Ev("vector_search", SearchK)>>
                  \o (IF db_data # "none" THEN <<Ev("db_query", 0)>> ELSE <<>>)
                  \o (IF response.llm_calls = 1 THEN <<Ev("llm_call", 0)>> ELSE <<>>)
                  \o <<Ev("respond", 0)>>,
     llm_calls |-> response.llm_calls,
     user_profile_name |-> response.name,
     conversation_history |-> Append(pipe.conversation_history, user_input),
     raised |-> FALSE]

\* a user_input that is not a str (None)
NotAStr == <<"None">>

\* user_input.lower() raises AttributeError
LowerRaises(user_input) == user_input = NotAStr

\* the dict of the except clause of process_query and what the call did: the
\* exception came from _analyze_query_intent, nothing was appended
QueryError ==
    [result |-> [text_response |-> Txt("error", "", FALSE),
                 data |-> None,
                 visualization |-> FALSE,
                 error |-> TRUE],
     trace |-> <<Ev("intent", 0)>>,
     llm_calls |-> 0,
     user_profile_name |-> pipe.user_profile_name,
     conversation_history |-> pipe.conversation_history,
     raised |-> FALSE]

\* process_query that queries the database whatever the intent says
process_query_always_db(user_input, include_visualization, llm, db) ==
    The({The({QueryResult(user_input, include_visualization, intent, vector_results,
                          query_database(db), response) :
                 response \in {generate_mcp_response(user_input, intent, query_database(db),
                                                     llm, pipe.user_profile_name)}}) :
            intent \in {analyze_query_intent(user_input)},
            vector_results \in {search(TextNo(user_input), SearchK, {}, <<>>).ret}})

\* the try block of process_query(user_input, include_visualization) for a str:
\* intent, vector search with k = 10, the database when the intent needs it
\* (db_data stays None otherwise), the response, the visualization when asked
\* for and there are rows; the result is appended to the history.  search,
\* _query_database, _generate_mcp_response and _generate_visualization catch
\* their exceptions.
process_query_try(user_input, include_visualization, llm, db) ==
    The({The({QueryResult(user_input, include_visualization, intent, vector_results,
                          IF intent.needs_database THEN query_database(db) ELSE "none",
                          response) :
                 response \in {generate_mcp_response(
                                  user_input, intent,
                                  IF intent.needs_database THEN query_database(db) ELSE "none",
                                  llm, pipe.user_profile_name)}}) :
            intent \in {analyze_query_intent(user_input)},
            vector_results \in {search(TextNo(user_input), SearchK, {}, <<>>).ret}})

\* process_query without its except clause: the exception reaches the caller
process_query_unguarded(user_input, include_visualization, llm, db) ==
    IF LowerRaises(user_input)
    THEN [QueryError EXCEPT !.raised = TRUE]
    ELSE process_query_try(user_input, include_visualization, llm, db)

\* process_query(user_input, include_visualization): the try block, and the
\* error dict when an exception leaves it
process_query(user_input, include_visualization, llm, db) ==
    IF LowerRaises(user_input)
    THEN QueryError
    ELSE process_query_try(user_input, include_visualization, llm, db)

(* --- rag_pipeline.answer_query and api.generate_ai_response --- *)

\* the length rag_pipeline keeps its conversation_history at
MAX_HISTORY == 15

\* generate_intelligent_response of rag_pipeline: one Groq call when the client
\* is available, generate_fallback_response when it is not or the call raised
generate_intelligent_response(llm) ==
    IF llm = "unavailable" THEN [text |-> Txt("rag_fallback", "", FALSE), llm_calls |-> 0]
    ELSE IF llm = "raises" THEN [text |-> Txt("rag_fallback", "", FALSE), llm_calls |-> 1]
    ELSE [text |-> Txt("llm", "", llm = "empty"), llm_calls |-> 1]

\* the basic path of answer_query: greeting, thanks, or the generated response,
\* appended to the module's conversation_history (trimmed to MAX_HISTORY after a
\* generated response only); any exception gives the error sentence.  The name
\* in the module's user_profile, which only decorates the texts, is left out.
answer_query_basic(user_input, llm, db) ==
    LET user_lower == LowerText(user_input)
        generated == generate_intelligent_response(llm)
        appended == Append(pipe.rag_history, user_input)
    IN IF db = "raises"
       THEN [summary |-> Txt("error_msg", "", FALSE), llm_calls |-> 0,
             rag_history |-> pipe.rag_history]
       ELSE IF HasAny(greetings, user_lower)
       THEN [summary |-> Txt("greeting", "", FALSE), llm_calls |-> 0,
             rag_history |-> appended]
       ELSE IF HasAny(thanks, user_lower)
       THEN [summary |-> Txt("thanks", "", FALSE), llm_calls |-> 0,
             rag_history |-> appended]
       ELSE [summary |-> generated.text, llm_calls |-> generated.llm_calls,
             rag_history |-> IF Len(appended) > MAX_HISTORY THEN Tail(appended)
                             ELSE appended]

\* how answer_query runs: through the enhanced pipeline, or through the basic
\* path when the enhanced pipeline is not available or its construction raised
RagModes == {"enhanced", "basic", "import_error"}

\* answer_query(user_input)
answer_query(user_input, rag, llm, db) ==
    IF rag = "enhanced"
    THEN The({[summary |-> r.result.text_response,
               plot |-> r.result.visualization,
               enhanced |-> TRUE,
               trace |-> <<Ev("enhanced", 0)>> \o r.trace,
               llm_calls |-> r.llm_calls,
               conversation_history |-> r.conversation_history,
               user_profile_name |-> r.user_profile_name,
               rag_history |-> pipe.rag_history] :
                 r \in {process_query(user_input, TRUE, llm, db)}})
    ELSE The({[summary |-> b.summary,
               plot |-> FALSE,
               enhanced |-> FALSE,
               trace |-> <<Ev("basic", 0)>>
                            \o (IF b.llm_calls = 1 THEN <<Ev("llm_call", 0)>> ELSE <<>>),
               llm_calls |-> b.llm_calls,
               conversation_history |-> pipe.conversation_history,
               user_profile_name |-> pipe.user_profile_name,
               rag_history |-> b.rag_history] :
                 b \in {answer_query_basic(user_input, llm, db)}})

\* the topic generate_fallback_response of api picks by keyword; every branch
\* returns a text of its own, none empty
FallbackTopic(user_input) ==
    LET query_lower == LowerText(user_input)
    IN IF HasAny(<< <<"temperature">>, <<"temp">>, <<"warm">>, <<"cold">>, <<"heat">> >>,
                 query_lower) THEN "temperature"
       ELSE IF HasAny(<< <<"salinity">>, <<"salt">>, <<"saltwater">>, <<"psu">> >>,
                      query_lower) THEN "salinity"
       ELSE IF HasAny(<< <<"depth">>, <<"pressure">>, <<"deep">>, <<"trench">>,
                         <<"bathymetry">> >>, query_lower) THEN "depth"
       ELSE IF HasAny(<< <<"code">>, <<"python">>, <<"programming">>, <<"script">> >>,
                      query_lower) THEN "code"
       ELSE "welcome"

\* generate_fallback_response(query) of api: the rule-based text
generate_fallback_response(user_input) == Txt("rule_based", FallbackTopic(user_input), FALSE)

\* generate_fallback_response_with_groq(query): one direct Groq call when there
\* is a client, the rule-based text when there is none or the call raised
generate_fallback_response_with_groq(user_input, llm2) ==
    IF llm2 = "unavailable"
    THEN [content |-> generate_fallback_response(user_input), llm_calls |-> 0,
          trace |-> <<Ev("rule_based", 0)>>]
    ELSE IF llm2 = "raises"
    THEN [content |-> generate_fallback_response(user_input), llm_calls |-> 1,
          trace |-> <<Ev("groq_direct", 0), Ev("llm_call", 0), Ev("rule_based", 0)>>]
    ELSE [content |-> Txt("groq_direct", "", llm2 = "empty"), llm_calls |-> 1,
          trace |-> <<Ev("groq_direct", 0), Ev("llm_call", 0)>>]

\* generate_ai_response(query): the RAG pipeline first; when importing it, or the
\* database and plot work after it, raises, the direct Groq call and then the
\* rule-based text.  An empty summary is replaced by 'No response generated'.
generate_ai_response(user_input, rag, llm, db, post_raises, llm2) ==
    IF rag = "import_error"
    THEN The({[content |-> f.content,
               trace |-> <<Ev("rag", 0), Ev("rag_raised", 0)>> \o f.trace,
               llm_calls |-> f.llm_calls,
               conversation_history |-> pipe.conversation_history,
               user_profile_name |-> pipe.user_profile_name,
               rag_history |-> pipe.rag_history] :
                 f \in {generate_fallback_response_with_groq(user_input, llm2)}})
    ELSE The({[content |-> IF post_raises THEN f.content
                           ELSE IF a.summary.empty THEN Txt("no_response", "", FALSE)
                           ELSE a.summary,
               trace |-> <<Ev("rag", 0)>> \o a.trace
                            \o (IF post_raises THEN <<Ev("rag_raised", 0)>> \o f.trace
                                ELSE <<>>),
               llm_calls |-> a.llm_calls + (IF post_raises THEN f.llm_calls ELSE 0),
               conversation_history |-> a.conversation_history,
               user_profile_name |-> a.user_profile_name,
               rag_history |-> a.rag_history] :
                 a \in {answer_query(user_input, rag, llm, db)},
                 f \in {generate_fallback_response_with_groq(user_input, llm2)}})

\* the pipeline after construction, before any query
PipeInit ==
    [conversation_history |-> <<>>,
     user_profile_name |-> None,
     rag_history |-> <<>>,
     trace |-> <<>>,
     llm_calls |-> 0,
     message_history |-> <<>>]

(* ------------------------- add_profile_data ---------------------------- *)

\* a cell of the DataFrame: NoColumn when the frame has no such column, NaN for
\* a missing value in a numeric column, NoneValue for None in an object column,
\* any other string is the value
NoColumn == "no column"

NaN == "nan"

NoneValue == "None"

\* pd.notna(value)
notna(value) == value \notin {NaN, NoneValue}

\* `col in row`
InRow(row, col) == row[col] # NoColumn

\* the rows of the frames handed to add_profile_data; the frames have no *_qc column
FullRow ==
    [latitude |-> "10.5", longitude |-> "70.25", date |-> "2023-01-01",
     platform_number |-> "2902", cycle_number |-> "1",
     temperature |-> "28.1", salinity |-> "35", pressure |-> "5"]

\* the list of rows; a content string is coded by the first row that yields it
RowList ==
    <<FullRow,
      [FullRow EXCEPT !.cycle_number = "2"],
      [FullRow EXCEPT !.date = NaN, !.platform_number = NoneValue,
                      !.salinity = NaN, !.pressure = NaN],
      [FullRow EXCEPT !.latitude = NaN],
      [FullRow EXCEPT !.latitude = NoneValue, !.longitude = NoneValue],
      [FullRow EXCEPT !.latitude = NoColumn, !.longitude = NoColumn,
                      !.platform_number = NoColumn, !.cycle_number = NoColumn,
                      !.salinity = NoColumn, !.pressure = NoColumn]>>

Rows == {RowList[i] : i \in DOMAIN RowList}

\* the columns of the frame a row comes from
Columns(row) == {col \in DOMAIN row : InRow(row, col)}

\* the frames: no row, one row, two rows of the same columns
Frames ==
    {<<>>} \cup {<<r>> : r \in Rows}
           \cup {f \in {<<r, s>> : r \in Rows, s \in Rows} : Columns(f[1]) = Columns(f[2])}

\* f"{value:.2f}": two decimals of a float, "nan" of NaN
Format2f(value) ==
    CASE value = NaN -> "nan"
      [] value = "10.5" -> "10.50"
      [] value = "70.25" -> "70.25"
      [] value = "28.1" -> "28.10"
      [] value = "35" -> "35.00"
      [] value = "5" -> "5.00"

\* f"{None:.2f}" raises TypeError
Format2fRaises(value) == value = NoneValue

\* the segment "Label: text" of a content string
Segment(label, text) == [label |-> label, text |-> text]

\* the segment for `col` if its condition holds, else nothing
DateSegment(row) ==
    IF InRow(row, "date") /\ notna(row.date)
    THEN <<Segment("Date", row.date)>> ELSE <<>>

PlatformSegment(row) ==
    IF InRow(row, "platform_number") /\ notna(row.platform_number)
    THEN <<Segment("Platform", row.platform_number)>> ELSE <<>>

\* the location segment is appended when both columns are in the row, without
\* looking at the values
LocationSegment(row) ==
    IF InRow(row, "latitude") /\ InRow(row, "longitude")
    THEN <<Segment("Location", <<Format2f(row.latitude), "N", Format2f(row.longitude), "E">>)>>
    ELSE <<>>

ocean_vars == <<"temperature", "salinity", "pressure">>

OceanSegment(row, var) ==
    IF InRow(row, var) /\ notna(row[var])
    THEN <<Segment(Title(var), Format2f(row[var]))>> ELSE <<>>

\* the row makes the loop body raise: a None latitude or longitude is formatted
ContentRaises(row) ==
    /\ InRow(row, "latitude") /\ InRow(row, "longitude")
    /\ Format2fRaises(row.latitude) \/ Format2fRaises(row.longitude)

\* content_parts of a row, in the order they are appended; " | ".join of them is
\* the content string
profile_content(row) ==
    LocationSegment(row) \o DateSegment(row) \o PlatformSegment(row)
      \o OceanSegment(row, ocean_vars[1]) \o OceanSegment(row, ocean_vars[2])
      \o OceanSegment(row, ocean_vars[3])

\* value if the cell holds one, else None (row.get with pd.notna)
GetOrNone(row, col) == IF InRow(row, col) /\ notna(row[col]) THEN Some(row[col]) ELSE None

\* the metadata dict of a row: the five keys that are always there and one key
\* per ocean variable that has a value
profile_metadata(row, idx) ==
    [key \in {"profile_index", "latitude", "longitude", "date", "platform_number",
              "cycle_number"}
            \cup {ocean_vars[v] : v \in {w \in DOMAIN ocean_vars :
                                         InRow(row, ocean_vars[w]) /\ notna(row[ocean_vars[w]])}} |->
        IF key = "profile_index" THEN Some(idx) ELSE GetOrNone(row, key)]

\* the content strings of the rows, numbered after the contents of Contents
ContentNo(parts) ==
    NumContents + (CHOOSE i \in DOMAIN RowList :
                     /\ ~ContentRaises(RowList[i])
                     /\ profile_content(RowList[i]) = parts
                     /\ \A j \in 1..(i - 1) :
                          ContentRaises(RowList[j]) \/ profile_content(RowList[j]) # parts)

\* the content string with number `no`
ContentText(no) == profile_content(RowList[no - NumContents])

\* the rows before the first one that raises
RowsDone(df) ==
    SubSeq(df, 1, Cardinality({i \in DOMAIN df : \A j \in 1..i : ~ContentRaises(df[j])}))

\* add_profile_data(df): the rows are added in order; an exception of the loop
\* body is not caught, the rows added before it stay
add_profile_data(df) ==
    The({The({IF Len(done) < Len(df)
              THEN Outcome(o.index, o.metadata, o.id_to_metadata, None, TRUE)
              ELSE [o EXCEPT !.ret = Some(o.ret)] :
                 o \in {add_profile_data_on(
                           [index |-> index, metadata |-> metadata,
                            id_to_metadata |-> id_to_metadata],
                           [i \in DOMAIN done |->
                               <<ContentNo(profile_content(done[i])),
                                 profile_metadata(done[i], i - 1)>>])}}) :
            done \in {RowsDone(df)}})

(* ------------------- mcp_integration: MCPHandler ----------------------- *)

\* ToolType
ToolTypes ==
    {"query_database", "generate_visualization", "search_vector_store", "export_data",
     "analyze_patterns"}

\* what the routed _handle_* coroutine does: it returns a result or raises (as
\* _handle_database_query does when no query engine is configured)
HandlerOutcomes == {"result", "raises"}

\* the fields without a default of the dataclasses, those of the base class
\* MCPMessage first
MCPMessageFields == {"id", "type", "timestamp", "content"}

MCPRequestFields == MCPMessageFields \cup {"tool", "parameters"}

MCPResponseFields == MCPMessageFields \cup {"success", "result"}

\* the generated __init__ of a dataclass raises TypeError when a field without
\* a default gets no argument; __post_init__, which would set type and
\* content, runs only after the arguments were bound
InitRaises(required, keywords) == ~(required \subseteq keywords)

\* MCPRequest(**kw): the request, or None when __init__ raises
MCPRequest(keywords, id, tool, parameters) ==
    IF InitRaises(MCPRequestFields, keywords) THEN None
    ELSE Some([type |-> "request", id |-> id, tool |-> tool, parameters |-> parameters])

\* MCPResponse(**kw): the response, or None when __init__ raises
MCPResponse(keywords, id, success, result, error) ==
    IF InitRaises(MCPResponseFields, keywords) THEN None
    ELSE Some([type |-> "response", id |-> id, success |-> success, result |-> result,
               error |-> error])

\* the keyword arguments create_request and handle_request pass
CreateRequestKeywords == {"id", "timestamp", "tool", "parameters"}

SuccessKeywords == {"id", "timestamp", "success", "result"}

ErrorKeywords == {"id", "timestamp", "success", "result", "error"}

\* generate_message_id(): a time stamp, here the number of the call
generate_message_id == steps

\* the except clause of handle_request: the error response is built, appended
\* and returned; an exception of its own leaves handle_request
handle_request_except(history, message) ==
    The({IF error_response = None
         THEN [message_history |-> history, ret |-> None, raised |-> TRUE]
         ELSE [message_history |-> history \o error_response, ret |-> error_response,
               raised |-> FALSE] :
            error_response \in {MCPResponse(ErrorKeywords, generate_message_id, FALSE,
                                            None, Some(message))}})

\* handle_request(request): the request is appended, the handler of its tool
\* runs, the response is built, appended and returned; any exception of these
\* steps goes to the except clause
handle_request(request, outcome) ==
    The({IF outcome = "raises"
         THEN handle_request_except(history, "handler")
         ELSE IF response = None
         THEN handle_request_except(history, "TypeError")
         ELSE [message_history |-> history \o response, ret |-> response, raised |-> FALSE] :
            history \in {Append(pipe.message_history, request)},
            response \in {MCPResponse(SuccessKeywords, generate_message_id, TRUE,
                                      Some(request.tool), None)}})

\* MCPHandler.create_request(tool, parameters)
create_request(tool, parameters) ==
    MCPRequest(CreateRequestKeywords, generate_message_id, tool, parameters)

\* MCPClient.send_request(tool, parameters): create_request is outside any try
send_request(tool, parameters, outcome) ==
    The({IF request = None
         THEN [message_history |-> pipe.message_history, ret |-> None, raised |-> TRUE]
         ELSE handle_request(request[1], outcome) :
            request \in {create_request(tool, parameters)}})

\* the parameters dicts of the requests
McpParameters == {[query_type |-> "by_region"], [query_type |-> "custom"]}

(* ------------------------------- actions ------------------------------- *)

\* the threads that call the store
Threads == 1..2

\* no call is in progress; mutex tells whether the callers serialize their calls
\* with a lock of their own
ConcIdle(mutex) ==
    [mutex |-> mutex, holder |-> 0,
     pc |-> [t \in Threads |-> "idle"],
     doc_id |-> [t \in Threads |-> None],
     idx |-> [t \in Threads |-> 0]]

\* the state after the constructor ran on a directory holding neither file
InitStore ==
    /\ index = EmptyIndex
    /\ metadata = <<>>
    /\ id_to_metadata = EmptyMap
    /\ disk = [index_file |-> Absent, metadata_file |-> Absent]
    /\ last = [op |-> "init", arg |-> <<>>, ret |-> None, raised |-> FALSE]
    /\ committed = [saved |-> FALSE, index |-> EmptyIndex, metadata |-> <<>>,
                    id_to_metadata |-> EmptyMap]
    /\ steps = 0
    /\ store = [exists |-> TRUE, encoder |-> TRUE]
    /\ pipe = PipeInit

\* one caller at a time
Init == InitStore /\ conc = ConcIdle(FALSE)

\* a handler ran: the containers take its outcome, the caller sees ret or an exception
Apply(o, op, arg) ==
    /\ steps < MaxSteps
    /\ index' = o.index
    /\ metadata' = o.metadata
    /\ id_to_metadata' = o.id_to_metadata
    /\ last' = [op |-> op, arg |-> arg, ret |-> o.ret, raised |-> o.raised]
    /\ steps' = steps + 1
    /\ UNCHANGED <<conc, pipe>>

AddDocument(content, md, doc_type) ==
    /\ Apply(add_document(content, md, doc_type), "add_document", <<content, md, doc_type>>)
    /\ store.exists
    /\ UNCHANGED <<disk, committed, store, pipe>>

Search(query, k, doc_types, filters) ==
    /\ Apply(search(query, k, doc_types, filters), "search", <<query, k, doc_types, filters>>)
    /\ store.exists
    /\ UNCHANGED <<disk, committed, store, pipe>>

GetDocument(doc_id) ==
    /\ Apply(get_document(doc_id), "get_document", <<doc_id>>)
    /\ store.exists
    /\ UNCHANGED <<disk, committed, store, pipe>>

DeleteDocument(doc_id) ==
    /\ Apply(delete_document(doc_id), "delete_document", <<doc_id>>)
    /\ store.exists
    /\ UNCHANGED <<disk, committed, store, pipe>>

Clear ==
    /\ Apply(clear, "clear", <<>>)
    /\ store.exists
    /\ UNCHANGED <<disk, committed, store, pipe>>

\* _save_index whose except clause resets the containers, as the one of
\* _load_index does
SaveIndex_resets(outcome) ==
    /\ store.exists
    /\ UNCHANGED store
    /\ Apply(IF outcome = "ok"
             THEN Outcome(index, metadata, id_to_metadata, None, FALSE)
             ELSE Outcome(EmptyIndex, <<>>, EmptyMap, None, FALSE),
             "save_index", <<outcome>>)
    /\ disk' = save_index(outcome)
    /\ committed' = IF outcome = "ok"
                    THEN [saved |-> TRUE, index |-> index, metadata |-> metadata,
                          id_to_metadata |-> id_to_metadata]
                    ELSE committed

\* _save_index() meeting `outcome`; it returns None whatever happened
SaveIndex(outcome) ==
    /\ store.exists
    /\ UNCHANGED store
    /\ Apply(Outcome(index, metadata, id_to_metadata, None, FALSE), "save_index", <<outcome>>)
    /\ disk' = save_index(outcome)
    /\ committed' = IF outcome = "ok"
                    THEN [saved |-> TRUE, index |-> index, metadata |-> metadata,
                          id_to_metadata |-> id_to_metadata]
                    ELSE committed

\* what SentenceTransformer(model_name) can do in the constructor
EncoderOutcomes == {"loaded", "load_failed"}

\* __init__ that logs a failure to load the encoder and carries on without one
construct_store_swallows(encoder_outcome) ==
    [store |-> [exists |-> TRUE, encoder |-> encoder_outcome = "loaded"],
     out |-> load_index]

\* __init__: a failure to load the encoder is logged and re-raised before any
\* container is created, so the caller gets no object; otherwise the containers
\* are created and _load_index() fills them
construct_store(encoder_outcome) ==
    IF encoder_outcome = "loaded"
    THEN [store |-> [exists |-> TRUE, encoder |-> TRUE], out |-> load_index]
    ELSE [store |-> [exists |-> FALSE, encoder |-> FALSE],
          out |-> Outcome(EmptyIndex, <<>>, EmptyMap, None, TRUE)]

(* --- EnhancedRAGPipeline.process_netcdf_files --- *)

\* what netcdf_processor.process_directory hands back: it raises, or returns the
\* processed files, each with the rows (content, metadata) of its profile_data
ScanOutcomes ==
    {[raised |-> TRUE, files |-> <<>>],
     [raised |-> FALSE, files |-> <<>>],
     [raised |-> FALSE, files |-> << <<>> >>],
     [raised |-> FALSE, files |-> << <<<<1, [region |-> "arctic"]>>>> >>],
     [raised |-> FALSE, files |-> << <<<<1, [region |-> "arctic"]>>>>,
                                    <<<<NumContents, [region |-> "indian"]>>>> >>]}

\* the loop over processed_files: add_profile_data for every file whose
\* profile_data is not empty
RECURSIVE add_files_on(_, _)
add_files_on(st, files) ==
    IF files = <<>>
    THEN Outcome(st.index, st.metadata, st.id_to_metadata, <<>>, FALSE)
    ELSE LET o == IF Head(files) = <<>>
                  THEN Outcome(st.index, st.metadata, st.id_to_metadata, <<>>, FALSE)
                  ELSE add_profile_data_on(st, Head(files))
             rest == add_files_on(o, Tail(files))
         IN [rest EXCEPT !.ret = o.ret \o rest.ret]

\* process_netcdf_files: ret is the status of the dict it returns.  The call of
\* _save_index is followed by `return {"status": "success", ...}` whatever the
\* save did, since _save_index neither raises nor returns anything
process_netcdf_files(scan) ==
    IF scan.raised
    THEN Outcome(index, metadata, id_to_metadata, Some("error"), FALSE)
    ELSE IF scan.files = <<>>
    THEN Outcome(index, metadata, id_to_metadata, Some("no_files"), FALSE)
    ELSE [add_files_on([index |-> index, metadata |-> metadata,
                        id_to_metadata |-> id_to_metadata], scan.files)
             EXCEPT !.ret = Some("success")]

\* does process_netcdf_files(scan) reach its call of _save_index
ReachesSave(scan) == ~scan.raised /\ scan.files # <<>>

ProcessNetcdfFiles(scan, outcome) ==
    /\ store.exists
    /\ UNCHANGED store
    /\ Apply(process_netcdf_files(scan), "process_netcdf_files", <<scan, outcome>>)
    /\ disk' = IF ReachesSave(scan)
               THEN save_index_on(process_netcdf_files(scan).index,
                                  process_netcdf_files(scan).metadata, outcome)
               ELSE disk
    /\ committed' = IF ReachesSave(scan) /\ outcome = "ok"
                    THEN [saved |-> TRUE, index |-> index', metadata |-> metadata',
                          id_to_metadata |-> id_to_metadata']
                    ELSE committed

\* the process ends and a new ARGOVectorStore is constructed on the same index_path
Construct(encoder_outcome) ==
    /\ Apply(construct_store(encoder_outcome).out, "construct", <<encoder_outcome>>)
    /\ store' = construct_store(encoder_outcome).store
    /\ UNCHANGED <<disk, committed>>

Next ==
    \/ \E content \in Contents, a \in DocArgs : AddDocument(content, a[1], a[2])
    \/ \E query \in Queries, k \in 0..MaxK, f \in FilterArgs : Search(query, k, f[1], f[2])
    \/ \E content \in Contents : GetDocument(GenerateId(content))
    \/ \E content \in Contents : DeleteDocument(GenerateId(content))
    \/ Clear
    \/ \E outcome \in SaveOutcomes : SaveIndex(outcome)
    \/ \E encoder_outcome \in EncoderOutcomes : Construct(encoder_outcome)

Spec == Init /\ [][Next]_vars

\* the calls on one store object, without persistence
NextMem ==
    \/ \E content \in Contents, a \in DocArgs : AddDocument(content, a[1], a[2])
    \/ \E query \in Queries, k \in 0..MaxK, f \in FilterArgs : Search(query, k, f[1], f[2])
    \/ \E content \in Contents : GetDocument(GenerateId(content))
    \/ \E content \in Contents : DeleteDocument(GenerateId(content))
    \/ Clear

SpecMem == Init /\ [][NextMem]_vars

(* --- two threads calling add_document and delete_document on one store;
       a step is one statement of the method --- *)

\* the arguments thread t passes to add_document: each thread adds a content of
\* its own, so concurrent adds are for distinct contents
ThreadDoc(t) == <<t, [region |-> "arctic"], "profile">>

\* a caller that serializes takes its lock before the call
CanEnter(t) ==
    /\ steps < MaxSteps
    /\ store.exists
    /\ conc.pc[t] = "idle"
    /\ conc.mutex => conc.holder = 0

\* thread t is inside a call, at statement pc
Enter(t, pc, doc_id) ==
    [conc EXCEPT !.pc[t] = pc, !.doc_id[t] = Some(doc_id),
                 !.holder = IF conc.mutex THEN t ELSE 0]

\* thread t returns (and a caller that serializes releases its lock)
Leave(t) ==
    [conc EXCEPT !.pc[t] = "idle", !.doc_id[t] = None, !.idx[t] = 0, !.holder = 0]

\* add_document up to the test `doc_id in self.id_to_metadata`, for a content
\* that is not stored: the append branch is taken
AddBegin(t) ==
    /\ CanEnter(t)
    /\ GenerateId(ThreadDoc(t)[1]) \notin DOMAIN id_to_metadata
    /\ conc' = Enter(t, "append", GenerateId(ThreadDoc(t)[1]))
    /\ steps' = steps + 1
    /\ UNCHANGED <<index, metadata, id_to_metadata, disk, last, committed, store, pipe>>

\* self.metadata.append(doc_meta)
AddAppend(t) ==
    /\ conc.pc[t] = "append"
    /\ metadata' = Append(metadata, DocMeta(ThreadDoc(t)[1], ThreadDoc(t)[2], ThreadDoc(t)[3]))
    /\ conc' = [conc EXCEPT !.pc[t] = "map"]
    /\ UNCHANGED <<index, id_to_metadata, disk, last, committed, steps, store, pipe>>

\* self.id_to_metadata[doc_id] = len(self.metadata) - 1
AddMap(t) ==
    /\ conc.pc[t] = "map"
    /\ id_to_metadata' =
           [d \in DOMAIN id_to_metadata \cup {conc.doc_id[t][1]} |->
               IF d = conc.doc_id[t][1] THEN Len(metadata) - 1 ELSE id_to_metadata[d]]
    /\ conc' = [conc EXCEPT !.pc[t] = "index_add"]
    /\ UNCHANGED <<index, metadata, disk, last, committed, steps, store, pipe>>

\* self.index.add(np.array([embedding])); return doc_id
AddIndex(t) ==
    /\ conc.pc[t] = "index_add"
    /\ index' = IndexAdd(index, Embedding(ThreadDoc(t)[1]))
    /\ last' = [op |-> "add_document", arg |-> ThreadDoc(t),
                ret |-> conc.doc_id[t], raised |-> FALSE]
    /\ conc' = Leave(t)
    /\ UNCHANGED <<metadata, id_to_metadata, disk, committed, steps, store, pipe>>

\* thread t returns False from delete_document
DeleteFails(t) ==
    /\ last' = [op |-> "delete_document", arg |-> conc.doc_id[t],
                ret |-> Some(FALSE), raised |-> FALSE]
    /\ conc' = Leave(t)

\* delete_document up to the test `doc_id not in self.id_to_metadata`
DelBegin(t, doc_id) ==
    /\ CanEnter(t)
    /\ steps' = steps + 1
    /\ IF doc_id \in DOMAIN id_to_metadata
       THEN conc' = Enter(t, "del_idx", doc_id) /\ UNCHANGED last
       ELSE /\ conc' = conc
            /\ last' = [op |-> "delete_document", arg |-> <<doc_id>>,
                        ret |-> Some(FALSE), raised |-> FALSE]
    /\ UNCHANGED <<index, metadata, id_to_metadata, disk, committed, store, pipe>>

\* idx = self.id_to_metadata[doc_id]; a KeyError goes to the except clause
DelIdx(t) ==
    /\ conc.pc[t] = "del_idx"
    /\ IF conc.doc_id[t][1] \in DOMAIN id_to_metadata
       THEN /\ conc' = [conc EXCEPT !.pc[t] = "del_remove",
                                    !.idx[t] = id_to_metadata[conc.doc_id[t][1]]]
            /\ UNCHANGED last
       ELSE DeleteFails(t)
    /\ UNCHANGED <<index, metadata, id_to_metadata, disk, committed, steps, store, pipe>>

\* self.index.remove_ids(np.array([idx]))
DelRemove(t) ==
    /\ conc.pc[t] = "del_remove"
    /\ index' = IndexRemoveIds(index, conc.idx[t])
    /\ conc' = [conc EXCEPT !.pc[t] = "del_meta"]
    /\ UNCHANGED <<metadata, id_to_metadata, disk, last, committed, steps, store, pipe>>

\* del self.metadata[idx]; an IndexError goes to the except clause
DelMeta(t) ==
    /\ conc.pc[t] = "del_meta"
    /\ IF PyInRange(metadata, conc.idx[t])
       THEN /\ metadata' = PyDel(metadata, conc.idx[t])
            /\ conc' = [conc EXCEPT !.pc[t] = "del_id"]
            /\ UNCHANGED last
       ELSE DeleteFails(t) /\ UNCHANGED metadata
    /\ UNCHANGED <<index, id_to_metadata, disk, committed, steps, store, pipe>>

\* del self.id_to_metadata[doc_id]; a KeyError goes to the except clause
DelId(t) ==
    /\ conc.pc[t] = "del_id"
    /\ IF conc.doc_id[t][1] \in DOMAIN id_to_metadata
       THEN /\ id_to_metadata' = [d \in DOMAIN id_to_metadata \ {conc.doc_id[t][1]} |->
                                     id_to_metadata[d]]
            /\ conc' = [conc EXCEPT !.pc[t] = "del_rebuild"]
            /\ UNCHANGED last
       ELSE DeleteFails(t) /\ UNCHANGED id_to_metadata
    /\ UNCHANGED <<index, metadata, disk, committed, steps, store, pipe>>

\* delete_document that returns True without rebuilding the id mapping
DelRebuild_skipped(t) ==
    /\ conc.pc[t] = "del_rebuild"
    /\ last' = [op |-> "delete_document", arg |-> conc.doc_id[t],
                ret |-> Some(TRUE), raised |-> FALSE]
    /\ conc' = Leave(t)
    /\ UNCHANGED <<index, metadata, id_to_metadata, disk, committed, steps, store, pipe>>

\* self.id_to_metadata = {doc['id']: i for i, doc in enumerate(self.metadata)};
\* return True
DelRebuild(t) ==
    /\ conc.pc[t] = "del_rebuild"
    /\ id_to_metadata' = EnumerateIds(metadata)
    /\ last' = [op |-> "delete_document", arg |-> conc.doc_id[t],
                ret |-> Some(TRUE), raised |-> FALSE]
    /\ conc' = Leave(t)
    /\ UNCHANGED <<index, metadata, disk, committed, steps, store, pipe>>

NextConc ==
    \E t \in Threads :
        \/ AddBegin(t)
        \/ AddAppend(t)
        \/ AddMap(t)
        \/ AddIndex(t)
        \/ \E content \in Contents : DelBegin(t, GenerateId(content))
        \/ DelIdx(t)
        \/ DelRemove(t)
        \/ DelMeta(t)
        \/ DelId(t)
        \/ DelRebuild(t)

\* the callers either all serialize their calls with a mutex or none does
InitConc == InitStore /\ \E mutex \in BOOLEAN : conc = ConcIdle(mutex)

SpecConc == InitConc /\ [][NextConc]_vars

\* a process that ingests NetCDF directories, saves, searches and restarts
NextIngest ==
    \/ \E scan \in ScanOutcomes, outcome \in SaveOutcomes : ProcessNetcdfFiles(scan, outcome)
    \/ \E outcome \in SaveOutcomes : SaveIndex(outcome)
    \/ \E query \in Queries, k \in 0..MaxK, f \in FilterArgs : Search(query, k, f[1], f[2])
    \/ \E encoder_outcome \in EncoderOutcomes : Construct(encoder_outcome)

SpecIngest == Init /\ [][NextIngest]_vars

(* --- the pipeline's calls --- *)

\* how many queries a behaviour takes
MaxQueries == 2

\* what a query meets: include_visualization, the Groq call, the database
QueryEnvs ==
    {<<TRUE, "ok", "rows">>,
     <<TRUE, "raises", "rows">>,
     <<FALSE, "unavailable", "raises">>,
     <<TRUE, "empty", "no_rows">>}

\* what a request to the API meets: the way answer_query runs, its Groq call,
\* the database, whether the work after answer_query raises, the direct Groq call
ApiEnvs ==
    {<<"enhanced", "ok", "rows", FALSE, "ok">>,
     <<"enhanced", "unavailable", "no_rows", FALSE, "unavailable">>,
     <<"enhanced", "raises", "rows", TRUE, "raises">>,
     <<"enhanced", "empty", "no_rows", TRUE, "ok">>,
     <<"basic", "raises", "rows", FALSE, "ok">>,
     <<"basic", "unavailable", "raises", TRUE, "unavailable">>,
     <<"basic", "empty", "no_rows", FALSE, "raises">>,
     <<"import_error", "ok", "rows", FALSE, "empty">>,
     <<"import_error", "raises", "rows", FALSE, "raises">>}

\* the caller of the pipeline gets ret or an exception; the store is only read
Reply(op, arg, ret, raised) ==
    /\ steps < MaxQueries
    /\ store.exists
    /\ last' = [op |-> op, arg |-> arg, ret |-> ret, raised |-> raised]
    /\ steps' = steps + 1
    /\ UNCHANGED <<index, metadata, id_to_metadata, disk, committed, store, conc>>

Answer(op, arg, ret) == Reply(op, arg, Some(ret), FALSE)

ProcessQuery(user_input, include_visualization, llm, db) ==
    /\ steps < MaxQueries
    /\ \E r \in {process_query(user_input, include_visualization, llm, db)} :
       /\ Reply("process_query", <<user_input, include_visualization, llm, db>>,
                IF r.raised THEN None ELSE Some(r.result), r.raised)
       /\ pipe' = [pipe EXCEPT !.conversation_history = r.conversation_history,
                               !.user_profile_name = r.user_profile_name,
                               !.trace = r.trace,
                               !.llm_calls = r.llm_calls]

GenerateAiResponse(user_input, rag, llm, db, post_raises, llm2) ==
    /\ steps < MaxQueries
    /\ \E r \in {generate_ai_response(user_input, rag, llm, db, post_raises, llm2)} :
       /\ Answer("generate_ai_response", <<user_input, rag, llm, db, post_raises, llm2>>,
                 [content |-> r.content])
       /\ pipe' = [conversation_history |-> r.conversation_history,
                   user_profile_name |-> r.user_profile_name,
                   rag_history |-> r.rag_history,
                   trace |-> r.trace,
                   llm_calls |-> r.llm_calls,
                   message_history |-> pipe.message_history]

\* _analyze_query_intent called on its own
AnalyzeQueryIntent(user_input) ==
    /\ steps <= MaxQueries
    /\ store.exists
    /\ last' = [op |-> "analyze_query_intent", arg |-> <<user_input>>,
                ret |-> Some(analyze_query_intent(user_input)), raised |-> FALSE]
    /\ UNCHANGED <<index, metadata, id_to_metadata, disk, committed, steps, store, conc,
                   pipe>>

NextPipe ==
    \/ \E user_input \in UserInputs, env \in QueryEnvs :
          ProcessQuery(user_input, env[1], env[2], env[3])
    \/ \E user_input \in UserInputs, env \in ApiEnvs :
          GenerateAiResponse(user_input, env[1], env[2], env[3], env[4], env[5])
    \/ \E user_input \in UserInputs : AnalyzeQueryIntent(user_input)

\* the pipeline over a store that is empty or holds one profile
InitPipe ==
    /\ \E o \in {Outcome(EmptyIndex, <<>>, EmptyMap, None, FALSE),
                 add_document_on([index |-> EmptyIndex, metadata |-> <<>>,
                                  id_to_metadata |-> EmptyMap],
                                 1, [region |-> "arctic"], "profile")} :
          /\ index = o.index
          /\ metadata = o.metadata
          /\ id_to_metadata = o.id_to_metadata
    /\ disk = [index_file |-> Absent, metadata_file |-> Absent]
    /\ last = [op |-> "init", arg |-> <<>>, ret |-> None, raised |-> FALSE]
    /\ committed = [saved |-> FALSE, index |-> EmptyIndex, metadata |-> <<>>,
                    id_to_metadata |-> EmptyMap]
    /\ steps = 0
    /\ store = [exists |-> TRUE, encoder |-> TRUE]
    /\ conc = ConcIdle(FALSE)
    /\ pipe = PipeInit

SpecPipe == InitPipe /\ [][NextPipe]_vars

\* the enhanced pipeline called directly, without the API in front of it
NextIntent ==
    \/ \E user_input \in UserInputs, env \in QueryEnvs :
          ProcessQuery(user_input, env[1], env[2], env[3])
    \/ \E user_input \in UserInputs : AnalyzeQueryIntent(user_input)

SpecIntent == InitPipe /\ [][NextIntent]_vars

\* process_query called with texts and with an argument that is not a str
NextQuery ==
    \E user_input \in UserInputs \cup {NotAStr}, env \in QueryEnvs :
        ProcessQuery(user_input, env[1], env[2], env[3])

SpecQuery == InitPipe /\ [][NextQuery]_vars

(* --- rag_pipeline.answer_query called on its own --- *)

\* what a call of answer_query meets: the way it runs, its Groq call, the database
AnswerEnvs ==
    {<<"basic", "ok", "rows">>,
     <<"basic", "raises", "no_rows">>,
     <<"import_error", "unavailable", "raises">>,
     <<"enhanced", "ok", "rows">>}

AnswerQuery(user_input, rag, llm, db) ==
    /\ steps < MaxQueries
    /\ \E a \in {answer_query(user_input, rag, llm, db)} :
       /\ Answer("answer_query", <<user_input, rag, llm, db>>,
                 [summary |-> a.summary, plot |-> a.plot])
       /\ pipe' = [conversation_history |-> a.conversation_history,
                   user_profile_name |-> a.user_profile_name,
                   rag_history |-> a.rag_history,
                   trace |-> a.trace,
                   llm_calls |-> a.llm_calls,
                   message_history |-> pipe.message_history]

NextHistory ==
    \E user_input \in UserInputs, env \in AnswerEnvs :
        AnswerQuery(user_input, env[1], env[2], env[3])

\* the module after import, or after MAX_HISTORY - 1 ordinary queries went
\* through the basic path
InitHistory ==
    /\ index = EmptyIndex
    /\ metadata = <<>>
    /\ id_to_metadata = EmptyMap
    /\ disk = [index_file |-> Absent, metadata_file |-> Absent]
    /\ last = [op |-> "init", arg |-> <<>>, ret |-> None, raised |-> FALSE]
    /\ committed = [saved |-> FALSE, index |-> EmptyIndex, metadata |-> <<>>,
                    id_to_metadata |-> EmptyMap]
    /\ steps = 0
    /\ store = [exists |-> TRUE, encoder |-> TRUE]
    /\ conc = ConcIdle(FALSE)
    /\ pipe \in {PipeInit,
                  [PipeInit EXCEPT !.rag_history = [i \in 1..(MAX_HISTORY - 1) |-> Texts[3]]]}

SpecHistory == InitHistory /\ [][NextHistory]_vars

(* --- the MCP handler of the pipeline and its client --- *)

\* the caller of the handler gets the response or an exception
McpReply(op, arg, r) ==
    /\ Reply(op, arg, r.ret, r.raised)
    /\ pipe' = [pipe EXCEPT !.message_history = r.message_history]

\* handle_request with a request the caller built with all its fields
HandleRequest(tool, parameters, outcome) ==
    /\ steps < MaxQueries
    /\ \E request \in {MCPRequest(MCPRequestFields, generate_message_id, tool, parameters)[1]} :
          \E r \in {handle_request(request, outcome)} :
             McpReply("handle_request", <<request, outcome>>, r)

SendRequest(tool, parameters, outcome) ==
    /\ steps < MaxQueries
    /\ \E r \in {send_request(tool, parameters, outcome)} :
          McpReply("send_request", <<tool, parameters, outcome>>, r)

NextMcp ==
    \/ \E tool \in ToolTypes, parameters \in McpParameters, outcome \in HandlerOutcomes :
          HandleRequest(tool, parameters, outcome)
    \/ \E tool \in ToolTypes, parameters \in McpParameters, outcome \in HandlerOutcomes :
          SendRequest(tool, parameters, outcome)

SpecMcp == Init /\ [][NextMcp]_vars

(* --- a run that starts on a store whose one document has been saved --- *)

\* the state after add_document(1, {region: arctic}, "profile") and a _save_index
\* that wrote both files
InitSaved ==
    /\ index = <<Embedding(1)>>
    /\ metadata = <<DocMeta(1, [region |-> "arctic"], "profile")>>
    /\ id_to_metadata = EnumerateIds(metadata)
    /\ disk = [index_file |-> Valid(index), metadata_file |-> Valid(JsonDump(metadata))]
    /\ last = [op |-> "save_index", arg |-> <<"ok">>, ret |-> None, raised |-> FALSE]
    /\ committed = [saved |-> TRUE, index |-> index, metadata |-> metadata,
                    id_to_metadata |-> id_to_metadata]
    /\ steps = 0
    /\ store = [exists |-> TRUE, encoder |-> TRUE]
    /\ pipe = PipeInit
    /\ conc = ConcIdle(FALSE)

SpecSaved == InitSaved /\ [][Next]_vars

(* --- add_profile_data called with frames of rows --- *)

\* number of add_profile_data calls in one run
MaxBatches == 2

AddProfileData(df) ==
    /\ steps < MaxBatches
    /\ store.exists
    /\ \E o \in {add_profile_data(df)} : Apply(o, "add_profile_data", <<df>>)
    /\ UNCHANGED <<disk, committed, store>>

NextProfile == \E df \in Frames : AddProfileData(df)

SpecProfile == Init /\ [][NextProfile]_vars

(* ------------------------------- claims -------------------------------- *)

\* the ids of a result list, in order
ResultIds(results) == [j \in 1..Len(results) |-> results[j].id]

\* the store is in step: one vector per record, each the embedding of its record
InStep ==
    /\ NTotal(index) = Len(metadata)
    /\ \A j \in 1..Len(metadata) : index[j] = Embedding(metadata[j].content)

\* C1: after every add_document, delete_document and clear the number of metadata
\* records equals the number of vectors: get_stats reports total_documents = index_size.
C1_CountsAgree == get_stats.total_documents = get_stats.index_size

\* C2: add_document with content that is already stored returns the id of that
\* content, leaves exactly one record for it, carrying the new metadata, and leaves
\* the record count and the index size as they were before the call.
C2_IdempotentUpsert ==
    [][(last'.op = "add_document" /\ GenerateId(last'.arg[1]) \in DOMAIN id_to_metadata)
        => /\ last'.ret = Some(GenerateId(last'.arg[1]))
           /\ Cardinality({j \in 1..Len(metadata') :
                               metadata'[j].content = last'.arg[1]}) = 1
           /\ \A j \in 1..Len(metadata') :
                  metadata'[j].content = last'.arg[1] => metadata'[j].metadata = last'.arg[2]
           /\ Len(metadata') = Len(metadata)
           /\ NTotal(index') = NTotal(index)]_vars

\* C3: for every slot of the index, the vector at that slot is the embedding of the
\* content of the metadata record at the same slot.
C3_SlotAligned ==
    \A j \in 1..NTotal(index) :
        j <= Len(metadata) /\ index[j] = Embedding(metadata[j].content)

\* C4: on a store in step holding n >= 1 documents, an unfiltered search with k > n
\* returns exactly n results, one per stored document, none repeated.
C4_SearchReturnsAll ==
    (/\ last.op = "search"
     /\ last.arg[3] = {} /\ last.arg[4] = <<>>
     /\ InStep
     /\ Len(metadata) >= 1
     /\ last.arg[2] > Len(metadata))
    => /\ Len(last.ret) = Len(metadata)
       /\ {last.ret[j].id : j \in 1..Len(last.ret)} = {metadata[j].id : j \in 1..Len(metadata)}
       /\ ~last.raised

\* C5: on an empty store (no records, no vectors) search returns the empty list for
\* every query, every k and every filter, and no exception reaches the caller.
C5_EmptySearch ==
    (last.op = "search" /\ Len(metadata) = 0 /\ NTotal(index) = 0)
    => (last.ret = <<>> /\ ~last.raised)

\* C5 witness: a search with k >= 1 and a metadata filter ran on the empty store
C5_Witness ==
    /\ last.op = "search"
    /\ Len(metadata) = 0 /\ NTotal(index) = 0
    /\ last.arg[2] >= 1
    /\ last.arg[4] # <<>>
    /\ last.ret = <<>>

\* C6: after delete_document(id) returned True on a store in step of n documents,
\* a following unfiltered search with k = n returns exactly n - 1 results, none of
\* them with the deleted id.
C6_SearchAfterDelete ==
    [][(/\ last.op = "delete_document" /\ last.ret = Some(TRUE)
        /\ InStep
        /\ last'.op = "search"
        /\ last'.arg[3] = {} /\ last'.arg[4] = <<>>
        /\ last'.arg[2] = Len(metadata) + 1)
       => /\ Len(last'.ret) = Len(metadata)
          /\ \A j \in 1..Len(last'.ret) : last'.ret[j].id # last.arg[1]]_vars

\* C7: for an id that is not stored get_document returns None and delete_document
\* returns False; neither raises and the three containers are unchanged.
C7_LookupMiss ==
    [][(last'.op \in {"get_document", "delete_document"}
        /\ last'.arg[1] \notin DOMAIN id_to_metadata)
       => /\ last'.ret = (IF last'.op = "get_document" THEN None ELSE Some(FALSE))
          /\ ~last'.raised
          /\ UNCHANGED <<index, metadata, id_to_metadata>>]_vars

\* C7 witness: delete_document missed on a store that holds documents
C7_Witness ==
    /\ last.op = "delete_document"
    /\ last.arg[1] \notin DOMAIN id_to_metadata
    /\ last.ret = Some(FALSE)
    /\ Len(metadata) >= 1

\* C8: id_to_metadata has exactly one key per stored record, maps the id of the
\* record at slot i to i, and no two records share an id.
C8_IdMapExact ==
    /\ DOMAIN id_to_metadata = {metadata[j].id : j \in 1..Len(metadata)}
    /\ \A j \in 1..Len(metadata) : id_to_metadata[metadata[j].id] = j - 1
    /\ \A j, l \in 1..Len(metadata) : metadata[j].id = metadata[l].id => j = l

\* C8 witness: a delete succeeded and left at least one document behind
C8_Witness ==
    /\ last.op = "delete_document"
    /\ last.ret = Some(TRUE)
    /\ Len(metadata) >= 1

\* C9: a store constructed on the path holds exactly the state as of the last
\* successful _save_index.
C9_ConstructSeesLastSave ==
    (last.op = "construct" /\ store.exists /\ committed.saved)
    => /\ index = committed.index
       /\ metadata = committed.metadata
       /\ id_to_metadata = committed.id_to_metadata

\* The part of C9 that the code keeps: no call other than _save_index changes
\* the persisted files.
C9_OnlySaveWrites == [][last'.op # "save_index" => disk' = disk]_vars

\* C10: constructing a new store right after a successful _save_index reproduces
\* the metadata list in slot order, the id_to_metadata mapping and the index size,
\* and every unfiltered search returns the same ids in the same order as before.
C10_RoundTrip ==
    [][(last.op = "save_index" /\ last.arg = <<"ok">> /\ last'.op = "construct"
           /\ store'.exists)
       => /\ metadata' = metadata
          /\ id_to_metadata' = id_to_metadata
          /\ NTotal(index') = NTotal(index)
          /\ \A query \in Queries, k \in 0..MaxK :
                ResultIds(search(query, k, {}, <<>>).ret)'
                    = ResultIds(search(query, k, {}, <<>>).ret)]_vars

\* C10 witness: a store of two documents was loaded from the files a save wrote
C10_Witness ==
    /\ last.op = "construct"
    /\ committed.saved
    /\ Len(metadata) >= 2
    /\ metadata = committed.metadata
    /\ index = committed.index

\* C11: when a persisted file is missing or fails to load, the constructor (its
\* encoder loaded) does not raise and the store starts with an empty index, no
\* records and no ids.
C11_LoadTolerant ==
    (/\ last.op = "construct"
     /\ last.arg = <<"loaded">>
     /\ (disk.index_file.state # "valid" \/ disk.metadata_file.state # "valid"))
    => /\ ~last.raised
       /\ index = EmptyIndex
       /\ metadata = <<>>
       /\ id_to_metadata = EmptyMap

\* C11 witness: the index file held vectors and loaded, then metadata.json failed
\* to parse
C11_Witness ==
    /\ last.op = "construct"
    /\ store.exists
    /\ disk.index_file.state = "valid"
    /\ Len(disk.index_file.data) >= 1
    /\ disk.metadata_file.state = "corrupt"
    /\ index = EmptyIndex

\* C12: a _save_index that fails leaves index, metadata and id_to_metadata as they
\* were before the call, and raises nothing.
C12_FailedSaveKeepsMemory ==
    [][(last'.op = "save_index" /\ last'.arg # <<"ok">>)
       => (UNCHANGED <<index, metadata, id_to_metadata>> /\ ~last'.raised)]_vars

\* C12 witness: a save failed on a store that holds a document
C12_Witness ==
    /\ last.op = "save_index"
    /\ last.arg # <<"ok">>
    /\ Len(metadata) >= 1

\* the candidates of search(query, k): the nearest neighbours the index holds, at
\* most k of them, best first
Candidates(query, k) ==
    IF k <= 0 THEN <<>>
    ELSE IndexSearch(index, Embedding(query),
                     IF k <= NTotal(index) THEN k ELSE NTotal(index))

\* the candidates whose record matches, in candidate order, each with its score
RECURSIVE Matching(_, _, _)
Matching(cands, doc_types, filters) ==
    IF cands = <<>> THEN <<>>
    ELSE LET doc == metadata[Head(cands).idx + 1]
             rest == Matching(Tail(cands), doc_types, filters)
         IN IF matches_filters(doc, doc_types, filters)
            THEN <<[id |-> doc.id, content |-> doc.content, metadata |-> doc.metadata,
                    doc_type |-> doc.doc_type, similarity_score |-> Head(cands).score]>>
                     \o rest
            ELSE rest

\* C14: on a store in step, search(query, k, doc_types, filters) returns, in
\* candidate order, exactly the candidates of the index whose record matches the
\* filters.
C14_FilterAfterSearch ==
    (last.op = "search" /\ InStep)
    => last.ret = Matching(Candidates(last.arg[1], last.arg[2]), last.arg[3], last.arg[4])

\* The part of C14 that the code keeps: a search returns at most k entries, each
\* the copy of a stored record that matches the filters.
C14_AtMostKMatching ==
    last.op = "search"
    => /\ Len(last.ret) <= (IF last.arg[2] >= 0 THEN last.arg[2] ELSE 0)
       /\ \A j \in 1..Len(last.ret) :
             /\ matches_filters(last.ret[j], last.arg[3], last.arg[4])
             /\ \E l \in 1..Len(metadata) : metadata[l].id = last.ret[j].id

\* C18: a constructor whose encoder fails to load raises and leaves no store
\* object; every store object that exists has an encoder, so add, search and load
\* never run without one.
C18_NoStoreWithoutEncoder ==
    /\ (last.op = "construct" /\ last.arg = <<"load_failed">>)
           => (last.raised /\ ~store.exists)
    /\ store.exists => store.encoder
    /\ (last.op \in {"add_document", "search", "get_document", "delete_document",
                    "clear", "save_index"}) => store.encoder
    /\ (last.op = "construct" /\ ~last.raised) => store.encoder

\* C18 witness: the encoder failed to load while the files held a saved document
C18_Witness ==
    /\ last.op = "construct"
    /\ last.arg = <<"load_failed">>
    /\ last.raised
    /\ ~store.exists
    /\ disk.metadata_file.state = "valid"
    /\ Len(disk.metadata_file.data) >= 1

\* C13: a failing save is surfaced: the caller of _save_index sees an exception
\* or a return value other than that of a successful save, and a
\* process_netcdf_files whose save failed does not return status 'success'.
C13_SaveFailureSurfaced ==
    /\ (last.op = "save_index" /\ last.arg # <<"ok">>)
           => (last.raised \/ last.ret # None)
    /\ (last.op = "process_netcdf_files" /\ ReachesSave(last.arg[1])
            /\ last.arg[2] # "ok")
           => last.ret # Some("success")

\* no call is in progress
AllIdle == \A t \in Threads : conc.pc[t] = "idle"

\* some id is mapped to a slot that holds no record or the record of another id
IdMappedToOtherDoc ==
    \E d \in DOMAIN id_to_metadata :
        \/ ~PyInRange(metadata, id_to_metadata[d])
        \/ PyIndex(metadata, id_to_metadata[d]).id # d

\* C15: between calls for new contents and deletes that a mutex serializes, every
\* id maps to the slot of its own record and the records are in the order of
\* their vectors; so a state between calls where an id maps to another document,
\* or where the two orders differ, is one of callers that do not serialize.
C15_SerializedSafe ==
    (AllIdle /\ conc.mutex) => (C8_IdMapExact /\ InStep)

\* C15 witness: two unserialized add_document calls for distinct new contents have
\* returned; an id is mapped to the slot of the other document and the records
\* are not in the order of their vectors
C15_Witness ==
    /\ ~conc.mutex
    /\ AllIdle
    /\ DOMAIN id_to_metadata = {GenerateId(ThreadDoc(t)[1]) : t \in Threads}
    /\ Len(metadata) = 2
    /\ NTotal(index) = 2
    /\ IdMappedToOtherDoc
    /\ ~InStep

\* C15, second witness: one add_document and one unserialized delete_document of
\* the document being added have both returned and the index holds a vector
\* without a record
C15_WitnessAddDelete ==
    /\ ~conc.mutex
    /\ AllIdle
    /\ steps = 2
    /\ last.op = "delete_document"
    /\ last.ret = Some(TRUE)
    /\ ~InStep

\* the text gets past the greeting and thanks branches of
\* _generate_simple_response, to the Groq call
ReachesLlm(user_input) ==
    /\ ~HasAny(greetings, LowerText(user_input))
    /\ ~HasAny(thanks, LowerText(user_input))

\* the events of the trace named ev
Positions(trace, ev) == {i \in 1..Len(trace) : trace[i].ev = ev}

\* all events named a come before all events named b
Before(trace, a, b) ==
    \A i \in Positions(trace, a), j \in Positions(trace, b) : i < j

\* C16: when the Groq call raises or is unavailable, process_query returns the
\* template text, not empty, in a result without 'error'; and when every Groq
\* call of a request fails, generate_ai_response returns non-empty content, having
\* gone through the RAG pipeline first, the direct Groq call only after the RAG
\* stage raised, and the rule-based text only after the direct call failed.
C16_FallbackText ==
    /\ (last.op = "process_query" /\ LlmFails(last.arg[3]) /\ ReachesLlm(last.arg[1]))
           => /\ last.ret[1].text_response =
                     TemplateText(last.ret[1].intent,
                                  IF last.ret[1].data # None THEN "rows"
                                  ELSE IF last.ret[1].intent.needs_database THEN "empty"
                                  ELSE "none")
              /\ last.ret[1].text_response.kind = "template"
              /\ ~last.ret[1].text_response.empty
              /\ ~last.ret[1].error
    /\ (last.op = "generate_ai_response" /\ LlmFails(last.arg[3]) /\ LlmFails(last.arg[6]))
           => /\ ~last.ret[1].content.empty
              /\ pipe.trace[1].ev = "rag"
              /\ Before(pipe.trace, "rag", "groq_direct")
              /\ Before(pipe.trace, "rag_raised", "groq_direct")
              /\ Before(pipe.trace, "rag_raised", "rule_based")
              /\ Before(pipe.trace, "groq_direct", "rule_based")
              /\ Positions(pipe.trace, "rule_based") # {}
                     => Positions(pipe.trace, "rag_raised") # {}
              /\ last.ret[1].content.kind = "rule_based"
                     <=> Positions(pipe.trace, "rule_based") # {}
              /\ (ReachesLlm(last.arg[1]) /\ last.arg[2] = "enhanced" /\ ~last.arg[5])
                     => last.ret[1].content.kind = "template"

\* C16 witness: the Groq call of the enhanced pipeline raised, the work after the
\* RAG pipeline raised, the direct Groq call raised, and the rule-based text came
\* back
C16_Witness ==
    /\ last.op = "generate_ai_response"
    /\ ReachesLlm(last.arg[1])
    /\ last.arg[2] = "enhanced"
    /\ last.arg[3] = "raises"
    /\ last.arg[5]
    /\ last.arg[6] = "raises"
    /\ last.ret[1].content.kind = "rule_based"
    /\ pipe.llm_calls = 2

\* C16, second witness: process_query answered with the template after its Groq
\* call raised
C16_WitnessQuery ==
    /\ last.op = "process_query"
    /\ last.arg[3] = "raises"
    /\ last.ret[1].text_response.kind = "template"
    /\ pipe.llm_calls = 1

\* Empty content can only be what the direct Groq call returned.
C16_EmptyOnlyFromDirectGroq ==
    (last.op = "generate_ai_response" /\ last.ret[1].content.empty)
    => (last.arg[6] = "empty" /\ Positions(pipe.trace, "groq_direct") # {})

\* C17: a query whose first Groq call fails makes exactly one more call before the
\* template is returned, and no query makes more than two calls.
C17_SingleRetry ==
    (last.op = "process_query" /\ last.arg[3] = "raises" /\ ReachesLlm(last.arg[1]))
    => /\ pipe.llm_calls = 2
       /\ last.ret[1].text_response.kind = "template"

\* The part of C17 that the code keeps: a request makes at most two Groq calls
\* (one in the RAG pipeline, one direct), and process_query at most one.
C17_AtMostTwoCalls ==
    /\ pipe.llm_calls <= 2
    /\ Cardinality(Positions(pipe.trace, "llm_call")) = pipe.llm_calls
    /\ last.op = "process_query" => pipe.llm_calls <= 1

\* C19: process_query classifies the intent first, then searches the vector store
\* with k = 10 whatever the intent, queries the database if and only if the intent
\* needs it, and generates the response after both.
C19_SourcesByIntent ==
    last.op = "process_query"
    => /\ Positions(pipe.trace, "intent") = {1}
       /\ Positions(pipe.trace, "vector_search") = {2}
       /\ pipe.trace[2].k = 10
       /\ Positions(pipe.trace, "db_query") # {}
              <=> analyze_query_intent(last.arg[1]).needs_database
       /\ Cardinality(Positions(pipe.trace, "db_query")) <= 1
       /\ Positions(pipe.trace, "respond") = {Len(pipe.trace)}
       /\ Before(pipe.trace, "intent", "db_query")
       /\ Before(pipe.trace, "db_query", "respond")
       /\ Before(pipe.trace, "vector_search", "respond")
       /\ last.ret[1].intent = analyze_query_intent(last.arg[1])

\* C19 witness: a query that needs no database was answered from a store that
\* holds a document: the vector store was searched, the database was not
C19_Witness ==
    /\ last.op = "process_query"
    /\ ~last.ret[1].intent.needs_database
    /\ ReachesLlm(last.arg[1])
    /\ Len(last.ret[1].vector_context) >= 1
    /\ Positions(pipe.trace, "db_query") = {}
    /\ Positions(pipe.trace, "vector_search") = {2}

\* C19, second witness: a query that needs the database got its rows
C19_WitnessDatabase ==
    /\ last.op = "process_query"
    /\ last.ret[1].intent.needs_database
    /\ last.ret[1].data # None
    /\ Positions(pipe.trace, "db_query") = {3}

Labels(parts) == {parts[i].label : i \in DOMAIN parts}

\* the id add_document gives to the content string of a row
RowId(row) == GenerateId(ContentNo(profile_content(row)))

\* C21: add_profile_data returns exactly one id per input record, in record
\* order, for any batch: also one with two records of the same content string
\* and one whose records were added by an earlier call.
C21_OneIdPerRecord ==
    (last.op = "add_profile_data" /\ ~last.raised) =>
        /\ Len(last.ret[1]) = Len(last.arg[1])
        /\ \A i \in DOMAIN last.arg[1] : last.ret[1][i] = RowId(last.arg[1][i])

\* C21, for any batch: add_profile_data returns a list whatever the cells hold
C21_ReturnsForAnyBatch == last.op = "add_profile_data" => ~last.raised

\* C21, the part that holds: the ids returned are, in row order, those of the
\* rows whose content was not in the store when its turn came
C21_IdsInRowOrder ==
    (last.op = "add_profile_data" /\ ~last.raised) =>
        /\ Len(last.ret[1]) <= Len(last.arg[1])
        /\ \E pick \in SUBSET DOMAIN last.arg[1] :
              /\ Cardinality(pick) = Len(last.ret[1])
              /\ \A i \in pick :
                    last.ret[1][Cardinality({j \in pick : j <= i})] = RowId(last.arg[1][i])

\* C22: the content string of a stored profile has a segment for location,
\* date, platform, temperature, salinity, pressure exactly when the record has a
\* non-null value for it, and no segment renders a missing value as 'nan' or 'None'.
C22_SegmentsIffValue ==
    \A j \in DOMAIN metadata :
        \E parts \in {ContentText(metadata[j].content)}, md \in {metadata[j].metadata} :
            /\ "Location" \in Labels(parts) <=> (md.latitude # None /\ md.longitude # None)
            /\ "Date" \in Labels(parts) <=> md.date # None
            /\ "Platform" \in Labels(parts) <=> md.platform_number # None
            /\ \A v \in DOMAIN ocean_vars :
                  Title(ocean_vars[v]) \in Labels(parts) <=> ocean_vars[v] \in DOMAIN md
            /\ \A i \in DOMAIN parts :
                  /\ parts[i].label # "Location" => parts[i].text \notin {"nan", "None"}
                  /\ parts[i].label = "Location" =>
                        \A p \in DOMAIN parts[i].text : parts[i].text[p] \notin {"nan", "None"}

\* C22, the part that holds: date, platform and the three ocean variables have a
\* segment exactly when the record has a value for them
C22_GuardedFields ==
    \A j \in DOMAIN metadata :
        \E parts \in {ContentText(metadata[j].content)}, md \in {metadata[j].metadata} :
            /\ "Date" \in Labels(parts) <=> md.date # None
            /\ "Platform" \in Labels(parts) <=> md.platform_number # None
            /\ \A v \in DOMAIN ocean_vars :
                  Title(ocean_vars[v]) \in Labels(parts) <=> ocean_vars[v] \in DOMAIN md

\* C23: a store constructed from the persisted files has as many records as
\* vectors, whatever pair of files is on disk, also the pair a _save_index leaves
\* that wrote faiss_index.bin and failed before or while writing metadata.json.
C23_LoadedCountsAgree ==
    (last.op = "construct" /\ store.exists) => Len(metadata) = NTotal(index)

\* C23, the case it names: the constructor runs on a store that is in step and
\* whose last complete save was of a store with as many records as vectors, so
\* that only a save that stopped part-way can have left files that disagree;
\* the constructed store has as many records as vectors.
C23_AfterPartialSave ==
    [][(/\ last'.op = "construct" /\ store'.exists
        /\ InStep
        /\ committed.saved /\ Len(committed.metadata) = NTotal(committed.index))
       => Len(metadata') = NTotal(index')]_vars

\* C23, the part that holds: a metadata.json truncated by the failed save does
\* not load, the store starts empty
C23_TruncatedStartsEmpty ==
    (last.op = "construct" /\ store.exists
        /\ "corrupt" \in {disk.index_file.state, disk.metadata_file.state})
    => (index = EmptyIndex /\ metadata = <<>> /\ id_to_metadata = EmptyMap)

\* C24: clear resets the store wholesale: after clear the three containers are
\* empty, and in the call that follows it get_document returns None for every
\* id, search returns an empty list and add_document puts its document in slot 0.
C24_ClearResets ==
    [][/\ last'.op = "clear" =>
            (index' = EmptyIndex /\ metadata' = <<>> /\ id_to_metadata' = EmptyMap
                /\ ~last'.raised)
       /\ (last.op = "clear" /\ last'.op = "get_document") => last'.ret = None
       /\ (last.op = "clear" /\ last'.op = "search") =>
            (last'.ret = <<>> /\ ~last'.raised)
       /\ (last.op = "clear" /\ last'.op = "add_document") =>
            /\ last'.ret = Some(GenerateId(last'.arg[1]))
            /\ id_to_metadata' = [d \in {GenerateId(last'.arg[1])} |-> 0]
            /\ metadata' = <<DocMeta(last'.arg[1], last'.arg[2], last'.arg[3])>>
            /\ index' = <<Embedding(last'.arg[1])>>]_vars

\* a document was added and saved, and clear was the third call
C24_Witness ==
    /\ last.op = "clear"
    /\ steps = 3
    /\ committed.saved /\ Len(committed.metadata) = 1
    /\ metadata = <<>>

\* C25: add_document is atomic on failure: whenever it returns None, metadata,
\* id_to_metadata and the index are exactly as they were before the call.
C25_AtomicOnFailure ==
    [][(last'.op = "add_document" /\ last'.ret = None)
       => (metadata' = metadata /\ id_to_metadata' = id_to_metadata /\ index' = index)]_vars

\* C25, the part that holds: a failed add_document leaves the id mapping and the
\* number of records as they were
C25_FailureKeepsIds ==
    [][(last'.op = "add_document" /\ last'.ret = None)
       => (id_to_metadata' = id_to_metadata /\ Len(metadata') = Len(metadata))]_vars

\* the keys of a JSON object of metadata.json
JsonKeys(object) == {object[p] : p \in {q \in DOMAIN object : q % 2 = 1}}

\* C26: search is read-only: it leaves metadata, id_to_metadata and the index
\* unchanged, and it puts similarity_score on a copy, so no stored record, no
\* record returned by get_document and no record written by _save_index has a
\* similarity_score key.
C26_SearchReadOnly ==
    [][/\ last'.op = "search" =>
            (metadata' = metadata /\ id_to_metadata' = id_to_metadata /\ index' = index)
       /\ \A j \in DOMAIN metadata' : "similarity_score" \notin DOMAIN metadata'[j]
       /\ (last'.op = "get_document" /\ last'.ret # None) =>
            "similarity_score" \notin DOMAIN last'.ret[1]
       /\ disk'.metadata_file.state = "valid" =>
            \A j \in DOMAIN disk'.metadata_file.data :
                "similarity_score" \notin JsonKeys(disk'.metadata_file.data[j])]_vars

\* a search has returned a stored record with its score
C26_Witness ==
    /\ last.op = "search"
    /\ last.ret # <<>>
    /\ "similarity_score" \in DOMAIN last.ret[1]
    /\ \E j \in DOMAIN metadata : metadata[j].id = last.ret[1].id

\* C27: process_query never raises, and conversation_history records exactly
\* the successful queries: a call that returns a result without an 'error' key
\* appends exactly one entry; a call that fails returns a dict with 'error' set,
\* data None and visualization None, and leaves conversation_history unchanged.
C27_HistoryOfSuccesses ==
    [][last'.op = "process_query" =>
          /\ ~last'.raised
          /\ last'.ret # None
          /\ LowerRaises(last'.arg[1]) <=> last'.ret[1].error
          /\ IF last'.ret[1].error
             THEN /\ last'.ret[1].data = None
                  /\ ~last'.ret[1].visualization
                  /\ pipe'.conversation_history = pipe.conversation_history
             ELSE /\ Len(pipe'.conversation_history) = Len(pipe.conversation_history) + 1
                  /\ pipe'.conversation_history =
                        Append(pipe.conversation_history, last'.arg[1])]_vars

\* a query was recorded, then a call failed and the history kept its one entry
C27_Witness ==
    /\ last.op = "process_query"
    /\ steps = 2
    /\ last.ret[1].error
    /\ Len(pipe.conversation_history) = 1

\* a query whose Groq call and database query both failed inside their own
\* handlers is a success for process_query: no 'error' key, one entry appended
C27_WitnessAbsorbed ==
    /\ last.op = "process_query"
    /\ steps = 1
    /\ last.arg[3] = "unavailable" /\ last.arg[4] = "raises"
    /\ ~last.ret[1].error
    /\ last.ret[1].intent.needs_database
    /\ Len(pipe.conversation_history) = 1

\* C28: for every input text the intent of _analyze_query_intent satisfies
\* needs_visualization => needs_database, and process_query produces a
\* visualization only when include_visualization is true, the intent needs a
\* visualization and the database query returned at least one row.
C28_VisualizationNeedsData ==
    /\ \A user_input \in UserInputs :
          analyze_query_intent(user_input).needs_visualization
              => analyze_query_intent(user_input).needs_database
    /\ (last.op = "process_query" /\ last.ret[1].visualization) =>
          /\ ~last.ret[1].error
          /\ last.arg[2]
          /\ last.ret[1].intent.needs_visualization
          /\ last.ret[1].intent.needs_database
          /\ last.arg[4] = "rows"
          /\ last.ret[1].data # None

\* a text with a visualization keyword and no database keyword got its
\* visualization from the rows of the database
C28_Witness ==
    /\ last.op = "process_query"
    /\ ~last.ret[1].error
    /\ last.ret[1].visualization
    /\ ~HasAny(db_keywords, LowerText(last.arg[1]))
    /\ last.ret[1].intent.needs_database
    /\ Positions(pipe.trace, "db_query") = {3}

\* a query that needs a visualization got none: the database returned no row
C28_WitnessNoRows ==
    /\ last.op = "process_query"
    /\ ~last.ret[1].error
    /\ last.arg[2] /\ last.ret[1].intent.needs_visualization
    /\ last.arg[4] = "no_rows"
    /\ ~last.ret[1].visualization
    /\ last.ret[1].data = None

\* C29: in the basic path of answer_query the module's conversation_history is
\* bounded: after any sequence of greetings, thank-you messages, follow-ups and
\* ordinary queries it has at most MAX_HISTORY (15) entries.
C29_HistoryBounded == Len(pipe.rag_history) <= MAX_HISTORY

\* C29, the part that holds: a call that is neither a greeting nor a thank-you
\* never makes the history longer than MAX_HISTORY when it was not, and it
\* drops the oldest entry first
C29_OrdinaryQueryTrims ==
    [][(/\ last'.op = "answer_query"
        /\ ~HasAny(greetings, LowerText(last'.arg[1]))
        /\ ~HasAny(thanks, LowerText(last'.arg[1]))
        /\ Len(pipe.rag_history) <= MAX_HISTORY)
       => /\ Len(pipe'.rag_history) <= MAX_HISTORY
          /\ pipe'.rag_history \in
                {pipe.rag_history,
                 Append(pipe.rag_history, last'.arg[1]),
                 Tail(Append(pipe.rag_history, last'.arg[1]))}]_vars

\* C30: handle_request always returns an MCPResponse and never propagates an
\* exception: success = True with the tool result when the routed handler
\* succeeds, success = False with the error string when it raises;
\* message_history gains the request followed by its response, and
\* send_request returns that response.
C30_AlwaysResponds ==
    [][last'.op \in {"handle_request", "send_request"} =>
          /\ ~last'.raised
          /\ last'.ret # None
          /\ last'.ret[1].type = "response"
          /\ last'.ret[1].success <=> (last'.arg[Len(last'.arg)] = "result")
          /\ last'.ret[1].success => last'.ret[1].result # None
          /\ ~last'.ret[1].success => last'.ret[1].error # None
          /\ Len(pipe'.message_history) = Len(pipe.message_history) + 2
          /\ SubSeq(pipe'.message_history, 1, Len(pipe.message_history)) = pipe.message_history
          /\ pipe'.message_history[Len(pipe.message_history) + 1].type = "request"
          /\ pipe'.message_history[Len(pipe.message_history) + 2] = last'.ret[1]]_vars

\* C30, the part that holds: handle_request records the request before it
\* does anything else, and nothing but messages of the call is added
C30_RequestRecorded ==
    [][last'.op = "handle_request" =>
          /\ Len(pipe'.message_history) > Len(pipe.message_history)
          /\ pipe'.message_history[Len(pipe.message_history) + 1] = last'.arg[1]]_vars

====
